---- MODULE Spec2Model ----
(***************************************************************************)
(* A model of the Athena orchestration engine (src/src/athena/atCore.py):  *)
(* the Register of Blueprints, the lazy build of a Blueprint's Processors  *)
(* with their Links, the Processor wrappers check/fix/tool, the status     *)
(* overrides of a Processor and the cooperative interruption of a Process. *)
(* Each subsystem has its own specification over the same variables; the   *)
(* variables a specification does not use keep their initial value.        *)
(***************************************************************************)
EXTENDS Integers, Sequences, FiniteSets, TLC

VARIABLES
    blueprints,         \* Register.__blueprints: sequence of Blueprint objects
    current_blueprint,  \* Register._current_blueprint
    nextObj,            \* identity given to the next Blueprint object built
    regLast,            \* the last Register operation: arguments, state before, outcome
    do_interrupt,       \* Process.__do_interrupt of one Process instance
    callbacks,          \* AtEvent._callbacks of Process._listen_for_user_interruption
    intLast,            \* the last operation on the Process or its event, and its outcome
    header,             \* the `header` attribute of a Blueprint's module
    descriptions,       \* the `descriptions` attribute of a Blueprint's module
    processors,         \* the tuple cached by Blueprint.processors, <<>> while there is none
    bpBuilt,            \* "unbuilt", "built" (the tuple is cached) or "raised"
    bpLast,             \* the last operation on the Blueprint or one of its Processors
    imported,           \* the Process classes whose module the interpreter has loaded
    process,            \* the Process instance cached by Processor.process, 0 while none
    created,            \* how many Process instances the Processor has created so far
    feedback_container, \* Process._feedback_container of the cached instance, by Thread
    touched,            \* the Threads whose status was set since the containers were made
    running,            \* the method of the Process that is running, "none" between calls
    prLast,             \* the last operation on the Processor or its Process
    threads,            \* the Thread attributes of one Process class, by attribute name
    ovLast,             \* the last resolution of status overrides, and its outcome
    fbNodes,            \* two feedback nodes (Feedback or FeedbackContainer objects)
    fbLast,             \* the last operation on the feedback nodes, and its outcome
    parameter,          \* a Parameter of a Process class and its value on one instance
    parLast,            \* the last operation on the Parameter, and its outcome
    all_status,         \* atStatus._ALL_STATUS: the set of instances of each class
    stLast              \* the last operation on statuses, and its outcome

regVars == <<blueprints, current_blueprint, nextObj, regLast>>

intVars == <<do_interrupt, callbacks, intLast>>

bpVars == <<header, descriptions, processors, bpBuilt, bpLast, imported>>

prVars == <<process, created, feedback_container, touched, running, prLast>>

ovVars == <<threads, ovLast>>

fbVars == <<fbNodes, fbLast>>

parVars == <<parameter, parLast>>

stVars == <<all_status, stLast>>

vars == <<regVars, intVars, bpVars, prVars, ovVars, fbVars, parVars, stVars>>

\* What an operation of one subsystem leaves alone: the variables of the others.
notRegVars == <<intVars, bpVars, prVars, ovVars, fbVars, parVars, stVars>>

notIntVars == <<regVars, bpVars, prVars, ovVars, fbVars, parVars, stVars>>

notBpVars == <<regVars, intVars, prVars, ovVars, fbVars, parVars, stVars>>

notOvVars == <<regVars, intVars, bpVars, prVars, fbVars, parVars, stVars>>

\* What an operation on the Process of a Processor leaves alone.
notPrVars ==
    <<regVars, intVars, header, descriptions, processors, bpBuilt, bpLast, imported,
      fbVars, parVars, stVars>>

notFbVars == <<regVars, intVars, bpVars, prVars, ovVars, parVars, stVars>>

notParVars == <<regVars, intVars, bpVars, prVars, ovVars, fbVars, stVars>>

notStVars == <<regVars, intVars, bpVars, prVars, ovVars, fbVars, parVars>>

(***************************************************************************)
(* Bounds of the model.                                                    *)
(***************************************************************************)
\* Blueprint objects built in one behaviour (object identities 1..MaxObjects).
MaxObjects == 4

\* Callbacks registered on one event.
MaxCallbacks == 3

\* Entries of the header of a Blueprint module.
MaxHeader == 2

\* Nested calls of the Processor wrappers the interpreter allows before it raises
\* RecursionError (sys.getrecursionlimit() frames in the interpreter).
MaxDepth == 6

\* The Process instances a Processor creates at most.
MaxInstances == 2

\* The Feedback a FeedbackContainer holds at most.
MaxChildren == 1

\* The children of the feedback node that select() and deselect() are called on.
MaxCascade == 3

\* The statuses constructed after the import of atStatus.
MaxStatuses == 2

(***************************************************************************)
(* Sequence helpers.                                                       *)
(***************************************************************************)
Range(s) == {s[i] : i \in DOMAIN s}

(***************************************************************************)
(* REGISTER AND BLUEPRINT IDENTITY                                         *)
(*                                                                         *)
(* A module object is known by its name in sys.modules and carries the     *)
(* path of its file; two module objects may carry the same file.           *)
(***************************************************************************)
Files == {"pkg/a.py", "dev/a.py", "pkg/b.py"}

ModuleNames == {"m", "m_alias"}

Modules == [file : Files, modname : ModuleNames]

\* os.path.splitext(os.path.basename(module.__file__))[0]
BaseName(f) ==
    CASE f = "pkg/a.py" -> "a"
      [] f = "dev/a.py" -> "a"
      [] f = "pkg/b.py" -> "b"
      [] OTHER -> ""

NoModule == [file |-> "", modname |-> ""]

\* The value None where a Blueprint is expected (object identity 0).
NoBlueprint == [module |-> NoModule, name |-> "", obj |-> 0]

\* Blueprint.__init__: keeps the module and derives the name from its file.
Blueprint(m, id) ==
    [module |-> m,
     name |-> IF BaseName(m.file) # "" THEN BaseName(m.file) ELSE m.modname,
     obj |-> id]

IsBlueprint(b) == b.obj # 0

\* Mutant of BlueprintEq: the module objects are compared, not their files.
BlueprintEqByModule(a, b) ==
    /\ IsBlueprint(a)
    /\ IsBlueprint(b)
    /\ a.module = b.module

\* Blueprint.__eq__: the same module file; never equal to a non Blueprint.
BlueprintEq(a, b) ==
    /\ IsBlueprint(a)
    /\ IsBlueprint(b)
    /\ a.module.file = b.module.file

\* `blueprint in self.__blueprints`: list membership by __eq__.
Contains(list, b) == \E i \in DOMAIN list : BlueprintEq(list[i], b)

\* The index at which the loop of load_blueprint_from_module breaks: the first entry equal
\* to the new Blueprint, 0 when the loop ends without a break.
FirstEqual(list, new) ==
    IF \E i \in DOMAIN list : BlueprintEq(list[i], new)
    THEN CHOOSE i \in DOMAIN list :
            /\ BlueprintEq(list[i], new)
            /\ \A j \in 1..(i - 1) : ~BlueprintEq(list[j], new)
    ELSE 0

\* The body of Register.load_blueprint_from_module on a list: the first entry
\* equal to the new Blueprint is replaced in place, else the new one is appended.
LoadInto(list, new) ==
    LET i == FirstEqual(list, new)
    IN IF i # 0 THEN [list EXCEPT ![i] = new] ELSE Append(list, new)

\* atUtils.reload_module: importlib.reload returns the module object it was given.
ReloadModule(m) == m

\* Mutant of ReloadLoop: every rebuilt Blueprint is put at the front of the list.
RECURSIVE ReloadLoopFront(_, _, _)
ReloadLoopFront(snapshot, n, id) ==
    IF n = 0 THEN <<>>
    ELSE <<Blueprint(ReloadModule(snapshot[n].module), id + n - 1)>>
            \o ReloadLoopFront(snapshot, n - 1, id)

\* The loop of Register.reload over the first n Blueprints of the snapshot,
\* starting from the cleared list; the k-th rebuilt Blueprint has identity id + k - 1.
RECURSIVE ReloadLoop(_, _, _)
ReloadLoop(snapshot, n, id) ==
    IF n = 0 THEN <<>>
    ELSE LoadInto(ReloadLoop(snapshot, n - 1, id),
                  Blueprint(ReloadModule(snapshot[n].module), id + n - 1))

\* Register.load_blueprint_from_module(module)
LoadBlueprintFromModule(m) ==
    /\ nextObj <= MaxObjects
    /\ LET new == Blueprint(m, nextObj)
       IN /\ blueprints' = LoadInto(blueprints, new)
          /\ regLast' = [op |-> "load", arg |-> new, pre |-> blueprints,
                         preCurrent |-> current_blueprint, out |-> "ok"]
    /\ nextObj' = nextObj + 1
    /\ UNCHANGED <<current_blueprint, notRegVars>>

\* Register.clear()
Clear ==
    /\ blueprints' = <<>>
    /\ regLast' = [op |-> "clear", arg |-> NoBlueprint, pre |-> blueprints,
                   preCurrent |-> current_blueprint, out |-> "ok"]
    /\ UNCHANGED <<current_blueprint, nextObj, notRegVars>>

\* Mutant of SetCurrentBlueprint: the assignment is made without the membership test.
SetCurrentUnchecked(b) ==
    /\ current_blueprint' = b
    /\ regLast' = [op |-> "set", arg |-> b, pre |-> blueprints,
                   preCurrent |-> current_blueprint, out |-> "ok"]
    /\ UNCHANGED blueprints

\* register.current_blueprint = b, the setter of the property.
SetCurrentBlueprint(b) ==
    /\ current_blueprint' = IF Contains(blueprints, b) THEN b ELSE current_blueprint
    /\ regLast' = [op |-> "set", arg |-> b, pre |-> blueprints,
                   preCurrent |-> current_blueprint, out |-> "ok"]
    /\ UNCHANGED blueprints

\* The caller assigns a Blueprint the Register holds, the current one, or None.
SetCurrentKnown ==
    /\ \E b \in Range(blueprints) \cup {current_blueprint, NoBlueprint} :
          SetCurrentBlueprint(b)
    /\ UNCHANGED <<nextObj, notRegVars>>

\* The caller assigns a Blueprint object it has just built from a module.
SetCurrentFresh ==
    /\ nextObj <= MaxObjects
    /\ \E m \in Modules : SetCurrentBlueprint(Blueprint(m, nextObj))
    /\ nextObj' = nextObj + 1
    /\ UNCHANGED notRegVars

\* Register.reload(). failAt = 0: every step succeeds. failAt = i in 1..Len: building the
\* Processors of the i-th Blueprint, or reloading one of their modules or the Blueprint's
\* module, raises. failAt = Len + 1: a callback of the blueprints_reloaded event raises.
Reload(failAt) ==
    LET n == Len(blueprints)
        done == IF failAt = 0 \/ failAt = n + 1 THEN n ELSE failAt - 1
    IN /\ nextObj + n <= MaxObjects + 1
       /\ blueprints' = ReloadLoop(blueprints, done, nextObj)
       /\ nextObj' = nextObj + done
       /\ regLast' = [op |-> "reload", arg |-> NoBlueprint, pre |-> blueprints,
                      preCurrent |-> current_blueprint,
                      out |-> IF failAt = 0 THEN "ok" ELSE "raised"]
       /\ UNCHANGED <<current_blueprint, notRegVars>>

ReloadOk == Reload(0)

ReloadRaises == \E failAt \in 1..(Len(blueprints) + 1) : Reload(failAt)

RegNext ==
    \/ \E m \in Modules : LoadBlueprintFromModule(m)
    \/ Clear
    \/ SetCurrentKnown
    \/ SetCurrentFresh
    \/ ReloadOk
    \/ ReloadRaises

(***************************************************************************)
(* COOPERATIVE INTERRUPTION                                                *)
(*                                                                         *)
(* One Process instance and the class level event                          *)
(* Process._listen_for_user_interruption. A callback of the event either   *)
(* registers the interruption of the Process (as the application does on a *)
(* key press, through Processor.interrupt), does nothing, or raises.       *)
(***************************************************************************)
CallbackKinds == {"interrupt", "idle", "raise"}

\* Mutant of RunCallbacks: every callback runs and the exception is raised after the
\* loop.
RunCallbacksAll(cbs, k, flag) ==
    [flag |-> flag \/ \E j \in k .. Len(cbs) : cbs[j] = "interrupt",
     ran |-> Len(cbs),
     raised |-> \E j \in k .. Len(cbs) : cbs[j] = "raise"]

\* AtEvent.__call__ from the k-th callback on: the callbacks run in registration order and
\* the first one that raises ends the loop. flag is Process.__do_interrupt.
RECURSIVE RunCallbacks(_, _, _)
RunCallbacks(cbs, k, flag) ==
    IF k > Len(cbs) THEN [flag |-> flag, ran |-> Len(cbs), raised |-> FALSE]
    ELSE IF cbs[k] = "raise" THEN [flag |-> flag, ran |-> k, raised |-> TRUE]
    ELSE RunCallbacks(cbs, k + 1, IF cbs[k] = "interrupt" THEN TRUE ELSE flag)

\* Process._register_interruption(), called from outside (Processor.interrupt).
RegisterInterruption ==
    /\ do_interrupt' = TRUE
    /\ intLast' = [op |-> "register", preFlag |-> do_interrupt, fired |-> FALSE, ran |-> 0,
                   setDuring |-> FALSE, out |-> "returned"]
    /\ UNCHANGED <<callbacks, notIntVars>>

\* AtEvent.add_callback(callback) with a callable: the callback is appended and True
\* returned.
AddCallback(c) ==
    /\ Len(callbacks) < MaxCallbacks
    /\ callbacks' = Append(callbacks, c)
    /\ intLast' = [op |-> "add_callback", preFlag |-> do_interrupt, fired |-> FALSE,
                   ran |-> 0, setDuring |-> FALSE, out |-> "True", callable |-> TRUE]
    /\ UNCHANGED <<do_interrupt, notIntVars>>

\* AtEvent.add_callback(callback) with an object that is not callable: the warning is
\* formatted with self.name, an attribute AtEvent does not have (it keeps _name), and
\* the AttributeError leaves add_callback before its return False.
AddCallbackNotCallable ==
    /\ intLast' = [op |-> "add_callback", preFlag |-> do_interrupt, fired |-> FALSE,
                   ran |-> 0, setDuring |-> FALSE, out |-> "attribute_error",
                   callable |-> FALSE]
    /\ UNCHANGED <<do_interrupt, callbacks, notIntVars>>

\* Process.listen_for_user_interruption()
ListenForUserInterruption ==
    IF do_interrupt
    THEN /\ intLast' = [op |-> "listen", preFlag |-> TRUE, fired |-> FALSE, ran |-> 0,
                        setDuring |-> FALSE, out |-> "returned"]
         /\ UNCHANGED <<do_interrupt, callbacks, notIntVars>>
    ELSE LET r == RunCallbacks(callbacks, 1, do_interrupt)
         IN /\ do_interrupt' = IF r.raised THEN r.flag ELSE FALSE
            /\ intLast' = [op |-> "listen", preFlag |-> FALSE, fired |-> TRUE,
                           ran |-> r.ran, setDuring |-> r.flag,
                           out |-> IF r.raised THEN "callback_raised"
                                   ELSE IF r.flag THEN "interrupted" ELSE "returned"]
            /\ UNCHANGED <<callbacks, notIntVars>>

IntNext ==
    \/ RegisterInterruption
    \/ \E c \in CallbackKinds : AddCallback(c)
    \/ AddCallbackNotCallable
    \/ ListenForUserInterruption

(***************************************************************************)
(* PROCESSORS: TAGS, CAPABILITIES AND LINKS                                *)
(***************************************************************************)
\* atConstants.CHECK, FIX and TOOL: the names of the three methods of a Process.
Methods == {"check", "fix", "tool"}

\* The members of the Link enumeration.
LinkKinds == {"CHECK", "FIX", "TOOL"}

\* The bits of the Tag flags (enum.auto() after NO_TAG = 0), and the two combined tags.
NO_TAG == 0

DISABLED == 1

NO_CHECK == 2

NO_FIX == 4

NO_TOOL == 8

NON_BLOCKING == 16

NO_BATCH == 32

NO_UI == 64

\* NON_BLOCKING | DISABLED
OPTIONAL == NON_BLOCKING + DISABLED

\* NO_CHECK | NO_FIX | NO_TOOL
DEPENDANT == NO_CHECK + NO_FIX + NO_TOOL

\* bool(tags & bit) for a single bit.
TagHas(tags, bit) == (tags \div bit) % 2 = 1

\* The Process classes a description may name by its import path. "Missing" is a path
\* whose module cannot be imported or lacks the class. "Inherits" subclasses a Process
\* subclass that defines the three methods and defines none itself.
ProcessClasses == {"Full", "Failing", "NoCheck", "CheckOnly", "Inherits", "Missing"}

\* atUtils.import_process_module_from_path returns (does not raise ImportError).
Importable(cls) == cls # "Missing"

\* The keys of atUtils.get_overridden_methods(process_class, Process): the methods of
\* Process that the class defines in its own body.
OverriddenMethods(cls) ==
    CASE cls = "Full" -> {"check", "fix", "tool"}
      [] cls = "Failing" -> {"check", "fix", "tool"}
      [] cls = "NoCheck" -> {"fix", "tool"}
      [] cls = "CheckOnly" -> {"check"}
      [] OTHER -> {}

\* The methods of the class whose body raises an exception (of the class's own making).
RaisingMethods(cls) == IF cls = "Failing" THEN {"check", "fix", "tool"} ELSE {}

\* Processor.has_check_method, has_fix_method, has_tool_method.
HasMethod(cls, m) == m \in OverriddenMethods(cls)

\* The keyword arguments of Processor.__init__ a description may omit, and their defaults.
TagsOf(d) == IF "tags" \in DOMAIN d THEN d.tags ELSE NO_TAG

HasLinks(d) == "links" \in DOMAIN d

LinksOf(d) == IF HasLinks(d) THEN d.links ELSE <<>>

\* The status overrides of a description, in the order of the dict; none by default.
StatusOverridesOf(d) == IF "status_overrides" \in DOMAIN d THEN d.status_overrides ELSE <<>>

EmptyLinksData == [k \in LinkKinds |-> <<>>]

\* Mutant of SetupTags: DISABLED is compared with the whole tag value, not tested as
\* one of its bits.
SetupTagsWholeValue(cls, tags) ==
    [is_enabled |-> tags # DISABLED,
     is_checkable |-> HasMethod(cls, "check") /\ ~TagHas(tags, NO_CHECK),
     is_fixable |-> HasMethod(cls, "fix") /\ ~TagHas(tags, NO_FIX),
     has_tool |-> HasMethod(cls, "tool") /\ ~TagHas(tags, NO_TOOL),
     is_non_blocking |-> TagHas(tags, NON_BLOCKING),
     in_batch |-> ~TagHas(tags, NO_BATCH),
     in_ui |-> ~TagHas(tags, NO_UI)]

\* Mutant of SetupTags: the capabilities start as True, whatever the class overrides.
SetupTagsUngated(cls, tags) ==
    [is_enabled |-> ~TagHas(tags, DISABLED),
     is_checkable |-> ~TagHas(tags, NO_CHECK),
     is_fixable |-> ~TagHas(tags, NO_FIX),
     has_tool |-> ~TagHas(tags, NO_TOOL),
     is_non_blocking |-> TagHas(tags, NON_BLOCKING),
     in_batch |-> ~TagHas(tags, NO_BATCH),
     in_ui |-> ~TagHas(tags, NO_UI)]

\* Processor.setup_tags: the capabilities from the class, then narrowed by the tag bits.
SetupTags(cls, tags) ==
    [is_enabled |-> ~TagHas(tags, DISABLED),
     is_checkable |-> HasMethod(cls, "check") /\ ~TagHas(tags, NO_CHECK),
     is_fixable |-> HasMethod(cls, "fix") /\ ~TagHas(tags, NO_FIX),
     has_tool |-> HasMethod(cls, "tool") /\ ~TagHas(tags, NO_TOOL),
     is_non_blocking |-> TagHas(tags, NON_BLOCKING),
     in_batch |-> ~TagHas(tags, NO_BATCH),
     in_ui |-> ~TagHas(tags, NO_UI)]

\* Processor.__init__(**description) for a class that can be imported: the object built
\* for the header id, with no link resolved yet.
Processor(id, d) ==
    [id |-> id, process |-> d.process, tags |-> TagsOf(d),
     has_links |-> HasLinks(d), links |-> LinksOf(d),
     caps |-> SetupTags(d.process, TagsOf(d)),
     status_overrides |-> StatusOverridesOf(d),
     links_data |-> EmptyLinksData]

\* The ids a header, the descriptions and the links of a Blueprint module use.
BuildIds == {"A", "B"}

\* A declared link (id_, _driver, _driven) of a description.
Link(id, driver, driven) == [id |-> id, driver |-> driver, driven |-> driven]

\* The default method names of resolve_links: check, fix and tool.
DefaultNames ==
    [k \in LinkKinds |-> CASE k = "CHECK" -> "check"
                          [] k = "FIX" -> "fix"
                          [] k = "TOOL" -> "tool"]

\* A dict from header ids to Processor objects or None: a Processor is known by its index
\* in the tuple of the Blueprint, None is 0.
EmptyMap == [x \in {} |-> 0]

MapSet(map, id, v) == [x \in DOMAIN map \cup {id} |-> IF x = id THEN v ELSE map[x]]

\* The loop of Processor.resolve_links from the k-th declared link on. A target id the
\* dict does not hold raises KeyError and leaves the buckets as filled so far; a target
\* that is None is skipped; else the bound method of the target, named from the driven
\* kind, is appended to the bucket of the driver kind.
RECURSIVE ResolveLoop(_, _, _, _, _)
ResolveLoop(links, k, linked_objects, names, links_data) ==
    IF k > Len(links) THEN [links_data |-> links_data, raised |-> FALSE]
    ELSE LET link == links[k]
         IN IF link.id \notin DOMAIN linked_objects
            THEN [links_data |-> links_data, raised |-> TRUE]
            ELSE IF linked_objects[link.id] = 0
            THEN ResolveLoop(links, k + 1, linked_objects, names, links_data)
            ELSE ResolveLoop(links, k + 1, linked_objects, names,
                    [links_data EXCEPT ![link.driver] =
                        Append(@, [target |-> linked_objects[link.id],
                                   method |-> names[link.driven]])])

\* Mutant of ResolveLinksData: a target that is None is not skipped.
ResolveLinksDataNoSkip(p, linked_objects, names) ==
    IF DOMAIN linked_objects = {} \/ ~p.has_links
    THEN [links_data |-> EmptyLinksData, raised |-> FALSE]
    ELSE ResolveLoop(p.links, 1,
                     [x \in DOMAIN linked_objects |->
                        IF linked_objects[x] = 0 THEN 1 ELSE linked_objects[x]],
                     names, EmptyLinksData)

\* Processor.resolve_links(linked_objects, check, fix, tool) on Processor p: the buckets
\* it leaves on p and whether it raised KeyError.
ResolveLinksData(p, linked_objects, names) ==
    IF DOMAIN linked_objects = {} \/ ~p.has_links
    THEN [links_data |-> EmptyLinksData, raised |-> FALSE]
    ELSE ResolveLoop(p.links, 1, linked_objects, names, EmptyLinksData)

\* Mutant of BuildLoop: a description tagged DISABLED builds no Processor.
RECURSIVE BuildLoopDropDisabled(_, _, _)
BuildLoopDropDisabled(hdr, descs, n) ==
    IF n = 0 THEN [objs |-> <<>>, map |-> EmptyMap, raised |-> FALSE]
    ELSE LET prev == BuildLoopDropDisabled(hdr, descs, n - 1)
             id == hdr[n]
         IN IF prev.raised \/ id \notin DOMAIN descs THEN prev
            ELSE IF ~Importable(descs[id].process) THEN [prev EXCEPT !.raised = TRUE]
            ELSE IF TagHas(TagsOf(descs[id]), DISABLED) THEN prev
            ELSE LET p == Processor(id, descs[id])
                     objs == Append(prev.objs, p)
                 IN [objs |-> objs,
                     map |-> MapSet(prev.map, id, IF p.caps.in_batch THEN Len(objs) ELSE 0),
                     raised |-> FALSE]

\* The first loop of Blueprint.processors over the first n header entries: the Processor
\* objects built, the dict batch_link_resolve, and whether a construction raised.
RECURSIVE BuildLoop(_, _, _)
BuildLoop(hdr, descs, n) ==
    IF n = 0 THEN [objs |-> <<>>, map |-> EmptyMap, raised |-> FALSE]
    ELSE LET prev == BuildLoop(hdr, descs, n - 1)
             id == hdr[n]
         IN IF prev.raised \/ id \notin DOMAIN descs THEN prev
            ELSE IF ~Importable(descs[id].process) THEN [prev EXCEPT !.raised = TRUE]
            ELSE LET p == Processor(id, descs[id])
                     objs == Append(prev.objs, p)
                 IN [objs |-> objs,
                     map |-> MapSet(prev.map, id, IF p.caps.in_batch THEN Len(objs) ELSE 0),
                     raised |-> FALSE]

\* The second loop of Blueprint.processors over the first n Processors.
RECURSIVE ResolveAll(_, _, _)
ResolveAll(objs, map, n) ==
    IF n = 0 THEN [objs |-> objs, raised |-> FALSE]
    ELSE LET prev == ResolveAll(objs, map, n - 1)
         IN IF prev.raised THEN prev
            ELSE LET r == ResolveLinksData(objs[n], map, DefaultNames)
                 IN [objs |-> [prev.objs EXCEPT ![n].links_data = r.links_data],
                     raised |-> r.raised]

\* Mutant of BuildProcessors: each Processor resolves its links as soon as it is built,
\* against the dict filled so far.
RECURSIVE BuildProcessorsOnePass(_, _, _)
BuildProcessorsOnePass(hdr, descs, n) ==
    IF n = 0 THEN [objs |-> <<>>, map |-> EmptyMap, out |-> "ok"]
    ELSE LET prev == BuildProcessorsOnePass(hdr, descs, n - 1)
             id == hdr[n]
         IN IF prev.out # "ok" \/ id \notin DOMAIN descs THEN prev
            ELSE IF ~Importable(descs[id].process) THEN [prev EXCEPT !.out = "ImportError"]
            ELSE LET p == Processor(id, descs[id])
                     map == MapSet(prev.map, id,
                                   IF p.caps.in_batch THEN Len(prev.objs) + 1 ELSE 0)
                     r == ResolveLinksData(p, map, DefaultNames)
                 IN [objs |-> Append(prev.objs, [p EXCEPT !.links_data = r.links_data]),
                     map |-> map,
                     out |-> IF r.raised THEN "KeyError" ELSE "ok"]

\* The body of Blueprint.processors on the first n header entries: both loops, the tuple
\* returned and the dict used, or the exception that leaves the getter.
BuildProcessors(hdr, descs, n) ==
    LET one == BuildLoop(hdr, descs, n)
        two == ResolveAll(one.objs, one.map, Len(one.objs))
    IN IF one.raised THEN [objs |-> <<>>, map |-> one.map, out |-> "ImportError"]
       ELSE IF two.raised THEN [objs |-> <<>>, map |-> one.map, out |-> "KeyError"]
       ELSE [objs |-> two.objs, map |-> one.map, out |-> "ok"]

\* Mutant of ImportedBy: the constructions import nothing.
ImportedByNone(hdr, descs) == {}

\* The Process classes the constructions of the first loop import: Processor.__init__
\* runs setup_tags, which reads has_check_method, has_fix_method and has_tool_method,
\* hence overridden_methods, process_class and module.
ImportedBy(hdr, descs) ==
    LET objs == BuildLoop(hdr, descs, Len(hdr)).objs
    IN {objs[i].process : i \in DOMAIN objs}

\* blueprint.processors, the cached getter: computed until a computation returns.
Processors ==
    /\ bpBuilt # "built"
    /\ LET r == BuildProcessors(header, descriptions, Len(header))
       IN /\ processors' = IF r.out = "ok" THEN r.objs ELSE <<>>
          /\ bpBuilt' = IF r.out = "ok" THEN "built" ELSE "raised"
          /\ bpLast' = [op |-> "processors", out |-> r.out, map |-> r.map]
    /\ imported' = imported \cup ImportedBy(header, descriptions)
    /\ UNCHANGED <<header, descriptions, notBpVars>>

\* The method names a caller of resolve_links passes as check, fix and tool: the defaults,
\* or names that run the fix of the target for a CHECK link and its check for a FIX link.
SwappedNames ==
    [k \in LinkKinds |-> CASE k = "CHECK" -> "fix"
                          [] k = "FIX" -> "check"
                          [] k = "TOOL" -> "tool"]

\* processor.resolve_links(linked_objects, check, fix, tool) on the i-th Processor of the
\* tuple; the dict maps ids to Processors of the tuple or to None.
ResolveLinks(i, linked_objects, names) ==
    /\ bpBuilt = "built"
    /\ LET r == ResolveLinksData(processors[i], linked_objects, names)
       IN /\ processors' = [processors EXCEPT ![i].links_data = r.links_data]
          /\ bpLast' = [op |-> "resolve_links", proc |-> i,
                        linked_objects |-> linked_objects, names |-> names,
                        out |-> IF r.raised THEN "KeyError" ELSE "ok"]
    /\ UNCHANGED <<header, descriptions, bpBuilt, imported, notBpVars>>

\* The dicts a caller passes: any subset of the ids, each mapped to None or to the last
\* Processor of the tuple built for it.
LinkedObjects(procs) ==
    {map \in UNION {[S -> {0} \cup DOMAIN procs] : S \in SUBSET BuildIds} :
        \A id \in DOMAIN map :
            \/ map[id] = 0
            \/ /\ procs[map[id]].id = id
               /\ \A j \in DOMAIN procs : j > map[id] => procs[j].id # id}

(***************************************************************************)
(* The Blueprint modules of the build specification: a header of at most   *)
(* MaxHeader entries over two ids, and descriptions for any subset of the  *)
(* ids, each with or without tags and links.                               *)
(***************************************************************************)
Headers == UNION {[1..n -> BuildIds] : n \in 0..MaxHeader}

BuildLinks == {Link(t, drv, dvn) : t \in BuildIds, drv \in LinkKinds, dvn \in LinkKinds}

BuildDescriptions ==
    [process : {"Full", "Missing"}, tags : {NO_TAG, DISABLED, NO_BATCH}]
        \cup [process : {"Full", "Missing"}, tags : {NO_TAG, DISABLED, NO_BATCH},
              links : {<<>>} \cup {<<l>> : l \in BuildLinks}]

BuildModules == UNION {[S -> BuildDescriptions] : S \in SUBSET BuildIds}

(***************************************************************************)
(* The Blueprint modules of the tags specification: the header ('A',), A   *)
(* of a class that overrides all, some or none of the three methods, with  *)
(* no tags or any combination of the members of Tag.                       *)
(***************************************************************************)
TagValues == 0 .. (2 * NO_UI - 1)

TagClasses == {"Full", "NoCheck", "CheckOnly", "Inherits"}

TagModules ==
    {[x \in {"A"} |-> d] :
        d \in [process : TagClasses] \cup [process : TagClasses, tags : TagValues]}

(***************************************************************************)
(* The Blueprint modules of the link resolution specification: the header  *)
(* ('A', 'B'), A declaring no link, one link or two links, B declaring     *)
(* none and applicable in batch or not.                                    *)
(***************************************************************************)
LinkSeqs ==
    {<<>>} \cup {<<l>> : l \in BuildLinks} \cup {<<l, m>> : l \in BuildLinks, m \in BuildLinks}

ResolveModules ==
    {[x \in BuildIds |-> IF x = "A" THEN a ELSE b] :
        a \in [process : {"Full"}] \cup [process : {"Full"}, links : LinkSeqs],
        b \in [process : {"Full"}, tags : {NO_TAG, NO_BATCH}]}


(***************************************************************************)
(* THE WRAPPERS check, fix AND tool OF A PROCESSOR                         *)
(*                                                                         *)
(* One call of a wrapper is computed with all the calls it makes through   *)
(* the links. Its log holds, in order, an event for every wrapper entered  *)
(* ("call"), every Process method run ("run", with whether it raised) and  *)
(* every wrapper left ("exit", with the exception that leaves it).         *)
(***************************************************************************)
\* The Link kind each wrapper passes to run_links.
LinkOf(m) == CASE m = "check" -> "CHECK" [] m = "fix" -> "FIX" [] m = "tool" -> "TOOL"

NoException == [type |-> "None", proc |-> 0, method |-> "", depth |-> 0]

\* The exception object raised by the method m of the Process of the i-th Processor in
\* the call at the given depth.
ProcessException(i, m, depth) ==
    [type |-> "ProcessError", proc |-> i, method |-> m, depth |-> depth]

RecursionError(depth) == [type |-> "RecursionError", proc |-> 0, method |-> "", depth |-> depth]

Event(ev, i, m, depth, raised, exc) ==
    [ev |-> ev, proc |-> i, method |-> m, depth |-> depth, raised |-> raised, exc |-> exc]

\* Mutant of LinksToRun: the links are run whatever the `links` argument.
LinksToRunAlways(p, m, links) == p.links_data[LinkOf(m)]

\* Mutant of LinksToRun: the bound methods are run from the last to the first.
LinksToRunBackwards(p, m, links) ==
    IF links
    THEN [k \in 1 .. Len(p.links_data[LinkOf(m)]) |->
            p.links_data[LinkOf(m)][Len(p.links_data[LinkOf(m)]) + 1 - k]]
    ELSE <<>>

\* The finally clause of a wrapper: `if links: self.run_links(Link.<KIND>)`.
LinksToRun(p, m, links) == IF links THEN p.links_data[LinkOf(m)] ELSE <<>>

\* The exception that leaves a try/finally: the one raised in the finally clause if any,
\* else the one in flight from the try clause.
Leaves(in_try, in_finally) == IF in_finally.type # "None" THEN in_finally ELSE in_try

RECURSIVE Wrapper(_, _, _, _, _)
RECURSIVE RunLinks(_, _, _, _)
\* Processor.check / fix / tool (links=links) on the i-th Processor, as the depth-th
\* nested wrapper call: None at once when the class does not override the method; else
\* the method of the Process runs, then the links of the kind, then the exception leaves.
Wrapper(procs, i, m, links, depth) ==
    IF depth > MaxDepth
    THEN [log |-> <<>>, exc |-> RecursionError(depth), returned |-> "nothing"]
    ELSE LET called == Event("call", i, m, depth, FALSE, NoException)
         IN IF ~HasMethod(procs[i].process, m)
            THEN [log |-> <<called, Event("exit", i, m, depth, FALSE, NoException)>>,
                  exc |-> NoException, returned |-> "None"]
            ELSE LET raised == m \in RaisingMethods(procs[i].process)
                     in_try == IF raised THEN ProcessException(i, m, depth)
                               ELSE NoException
                     ran == RunLinks(procs, LinksToRun(procs[i], m, links), 1, depth + 1)
                     exc == Leaves(in_try, ran.exc)
                 IN [log |-> <<called, Event("run", i, m, depth, raised, in_try)>>
                                \o ran.log
                                \o <<Event("exit", i, m, depth, exc.type # "None", exc)>>,
                     exc |-> exc,
                     returned |-> IF exc.type # "None" THEN "nothing" ELSE "value"]

\* Mutant of RunLinks: the bound methods are called with links=False, so that the links
\* of the targets are not run.
RECURSIVE RunLinksNotChained(_, _, _, _)
RunLinksNotChained(procs, bucket, k, depth) ==
    IF k > Len(bucket) THEN [log |-> <<>>, exc |-> NoException]
    ELSE LET r == Wrapper(procs, bucket[k].target, bucket[k].method, FALSE, depth)
         IN IF r.exc.type # "None" THEN [log |-> r.log, exc |-> r.exc]
            ELSE LET rest == RunLinksNotChained(procs, bucket, k + 1, depth)
                 IN [log |-> r.log \o rest.log, exc |-> rest.exc]

\* Processor.run_links from the k-th bound method of the bucket on: each is called with
\* its default links=True; the first that raises ends the loop.
RunLinks(procs, bucket, k, depth) ==
    IF k > Len(bucket) THEN [log |-> <<>>, exc |-> NoException]
    ELSE LET r == Wrapper(procs, bucket[k].target, bucket[k].method, TRUE, depth)
         IN IF r.exc.type # "None" THEN [log |-> r.log, exc |-> r.exc]
            ELSE LET rest == RunLinks(procs, bucket, k + 1, depth)
                 IN [log |-> r.log \o rest.log, exc |-> rest.exc]

\* A call of a wrapper by the application on the i-th Processor of the tuple.
Call(i, m, links) ==
    /\ bpBuilt = "built"
    /\ LET r == Wrapper(processors, i, m, links, 1)
       IN bpLast' = [op |-> m, proc |-> i, links |-> links, log |-> r.log,
                     exc |-> r.exc, returned |-> r.returned]
    /\ UNCHANGED <<header, descriptions, processors, bpBuilt, imported, notBpVars>>

\* processor.check(links=links)
Check(i, links) == Call(i, "check", links)

\* processor.fix(links=links)
Fix(i, links) == Call(i, "fix", links)

\* processor.tool(links=links)
Tool(i, links) == Call(i, "tool", links)

(***************************************************************************)
(* The Blueprint modules of the run specification: the header ('A', 'B'),  *)
(* each description naming one of three classes; A declares no link, one   *)
(* link or two links driven by CHECK; B declares at most one link and is   *)
(* applicable in batch or not.                                             *)
(***************************************************************************)
RunLinks1 ==
    {Link(t, "CHECK", "CHECK") : t \in BuildIds}
        \cup {Link(t, "CHECK", "TOOL") : t \in BuildIds}
        \cup {Link(t, "TOOL", "CHECK") : t \in BuildIds}
        \cup {Link(t, "FIX", "FIX") : t \in BuildIds}

RunLinkSeqs ==
    {<<>>} \cup {<<l>> : l \in RunLinks1}
        \cup {<<l, m>> : l \in {x \in RunLinks1 : x.driver = "CHECK"},
                         m \in {x \in RunLinks1 : x.driver = "CHECK"}}

RunModules ==
    {[x \in BuildIds |-> IF x = "A" THEN a ELSE b] :
        a \in [process : {"Full", "Failing", "NoCheck"}, links : RunLinkSeqs],
        b \in [process : {"Full", "Failing", "NoCheck"}, tags : {NO_TAG, NO_BATCH},
               links : {<<>>} \cup {<<l>> : l \in RunLinks1}]}

(***************************************************************************)
(* STATUS OVERRIDES                                                        *)
(*                                                                         *)
(* The Threads are attributes of the Process class, shared by every        *)
(* instance of the class; Processor.process resolves the status overrides  *)
(* of its description on them each time it instantiates the Process.       *)
(***************************************************************************)
\* The levels of statuses are floats: a number, or the nan that compares to nothing.
\* Inf stands for float('inf'), above every number a level is given in this model.
Inf == 1000

Num(v) == [nan |-> FALSE, v |-> v]

\* float('nan'): each evaluation gives a float object of its own, k is its identity. A
\* nan is equal to nothing, itself included, and its hash is taken from its identity.
NaN(k) == [nan |-> TRUE, v |-> k]

\* x == y, x < y and x > y on two floats.
FloatEq(x, y) == ~x.nan /\ ~y.nan /\ x.v = y.v

FloatLt(x, y) == ~x.nan /\ ~y.nan /\ x.v < y.v

FloatGt(x, y) == ~x.nan /\ ~y.nan /\ x.v > y.v

\* The attributes Status.__init__(name, color, level) gives an instance of the class
\* family.
Status(family, name, color, level) ==
    [name |-> name, family |-> family, color |-> color, level |-> level]

\* Statuses of atStatus, each an instance of one of the Status subclasses.
ERROR == Status("FailStatus", "Error", <<150, 0, 0>>, Num(Inf))

WARNING == Status("FailStatus", "Warning", <<196, 98, 16>>, Num(1))

SUCCESS == Status("SuccessStatus", "Success", <<0, 128, 0>>, Num(-Inf))

CORRECT == Status("SuccessStatus", "Correct", <<22, 194, 15>>, Num(-1))

\* The value None where a Status is expected (a key the override dict does not hold).
NoStatus == Status("NoneType", "None", <<>>, NaN(0))

\* isinstance(status, atStatus.FailStatus), isinstance(status, atStatus.SuccessStatus)
IsFailStatus(status) == status.family = "FailStatus"

IsSuccessStatus(status) == status.family = "SuccessStatus"

\* Thread.__init__(title, fail_status, success_status) with valid statuses.
Thread(title, fail_status, success_status) ==
    [title |-> title,
     default_fail_status |-> fail_status, fail_status |-> fail_status,
     default_success_status |-> success_status, success_status |-> success_status]

\* Mutant of OverrideFailStatus: the value becomes the default fail status as well, as
\* in Thread.__init__.
OverrideFailStatusAndDefault(th, name, status) ==
    [th EXCEPT ![name].fail_status = status, ![name].default_fail_status = status]

\* Thread.override_fail_status and Thread.override_success_status on the Thread `name`.
OverrideFailStatus(th, name, status) == [th EXCEPT ![name].fail_status = status]

OverrideSuccessStatus(th, name, status) == [th EXCEPT ![name].success_status = status]

\* Mutant of OverrideLoop: the values are stored without the isinstance tests.
RECURSIVE OverrideLoopUnchecked(_, _, _)
OverrideLoopUnchecked(th, overrides, k) ==
    IF k > Len(overrides) THEN [threads |-> th, out |-> "ok"]
    ELSE LET o == overrides[k]
         IN IF o.thread \notin DOMAIN th
            THEN [threads |-> th, out |-> "RuntimeError: no thread"]
            ELSE LET th1 == IF o.fail # NoStatus
                            THEN OverrideFailStatus(th, o.thread, o.fail) ELSE th
                     th2 == IF o.success # NoStatus
                            THEN OverrideSuccessStatus(th1, o.thread, o.success) ELSE th1
                 IN OverrideLoopUnchecked(th2, overrides, k + 1)

\* The loop of Processor._override_status from the k-th entry of the overrides on, in
\* the order of the dict: the Threads it leaves and how it ends.
RECURSIVE OverrideLoop(_, _, _)
OverrideLoop(th, overrides, k) ==
    IF k > Len(overrides) THEN [threads |-> th, out |-> "ok"]
    ELSE LET o == overrides[k]
         IN IF o.thread \notin DOMAIN th
            THEN [threads |-> th, out |-> "RuntimeError: no thread"]
            ELSE IF o.fail # NoStatus /\ ~IsFailStatus(o.fail)
            THEN [threads |-> th, out |-> "RuntimeError: fail status"]
            ELSE LET th1 == IF o.fail # NoStatus
                            THEN OverrideFailStatus(th, o.thread, o.fail) ELSE th
                 IN IF o.success # NoStatus /\ ~IsSuccessStatus(o.success)
                    THEN [threads |-> th1, out |-> "RuntimeError: success status"]
                    ELSE LET th2 == IF o.success # NoStatus
                                    THEN OverrideSuccessStatus(th1, o.thread, o.success)
                                    ELSE th1
                         IN OverrideLoop(th2, overrides, k + 1)

\* Whether the application has called Thread.override_fail_status or
\* Thread.override_success_status itself since the Threads were declared.
CalledDirectly == ovLast.op # "init" /\ ovLast.direct

\* Processor._override_status(process, overrides), as Processor.process calls it.
OverrideStatus(overrides) ==
    /\ LET r == OverrideLoop(threads, overrides, 1)
       IN /\ threads' = r.threads
          /\ ovLast' = [op |-> "override", overrides |-> overrides, pre |-> threads,
                        out |-> r.out, direct |-> CalledDirectly]
    /\ UNCHANGED notOvVars

\* The public Thread.override_fail_status(status), called by the application on the
\* Thread `name` of the class: the status is stored whatever its class, nothing is
\* raised and None is returned.
ThreadOverrideFailStatus(name, status) ==
    /\ threads' = OverrideFailStatus(threads, name, status)
    /\ ovLast' = [op |-> "override_fail_status", thread |-> name, status |-> status,
                  pre |-> threads, out |-> "None", direct |-> TRUE]
    /\ UNCHANGED notOvVars

\* The public Thread.override_success_status(status), called by the application on the
\* Thread `name` of the class: the status is stored whatever its class, nothing is
\* raised and None is returned.
ThreadOverrideSuccessStatus(name, status) ==
    /\ threads' = OverrideSuccessStatus(threads, name, status)
    /\ ovLast' = [op |-> "override_success_status", thread |-> name, status |-> status,
                  pre |-> threads, out |-> "None", direct |-> TRUE]
    /\ UNCHANGED notOvVars

\* The statuses an application hands to the two methods of a Thread: a FailStatus and a
\* SuccessStatus, each given to either method.
DirectStatuses == {WARNING, CORRECT}

\* The status overrides of a description: per Thread name, a value or none under the
\* FailStatus key and under the SuccessStatus key; "Missing" names no Thread of the class.
OverrideEntries ==
    [thread : {"T1", "T2", "Missing"}, fail : {NoStatus, WARNING, CORRECT},
     success : {NoStatus, CORRECT, WARNING}]

\* The dicts of overrides: empty, of one entry, or of an entry for T1 followed by an entry
\* for another name.
Overrides ==
    {<<>>} \cup {<<o>> : o \in OverrideEntries}
        \cup {ov \in {<<o, q>> : o \in OverrideEntries, q \in OverrideEntries} :
                ov[1].thread = "T1" /\ ov[2].thread # "T1"}

OvNext ==
    \/ \E overrides \in Overrides : OverrideStatus(overrides)
    \/ \E t \in DOMAIN threads : \E status \in DirectStatuses :
          ThreadOverrideFailStatus(t, status)
    \/ \E t \in DOMAIN threads : \E status \in DirectStatuses :
          ThreadOverrideSuccessStatus(t, status)

(***************************************************************************)
(* THE PROCESS OF A PROCESSOR                                              *)
(*                                                                         *)
(* One Processor and the Process it wraps. A call of check, fix or tool    *)
(* enters the method of the Process; the method then sets statuses, adds   *)
(* Feedback or clears, one step at a time, until it returns or raises.     *)
(* feedback_container and touched are those of the Process instance        *)
(* created last, which is the cached one as soon as one is cached.         *)
(***************************************************************************)
\* The built-in statuses atStatus._DEFAULT and atStatus._SKIPPED.
DEFAULT == Status("_BuiltInStatus", "Default", <<60, 60, 60>>, Num(0))

SKIPPED == Status("_BuiltInStatus", "Skipped", <<85, 85, 85>>, NaN(2))

\* Feedback(feedback, selectable): no child at construction.
Feedback(feedback, selectable) ==
    [feedback |-> feedback, selectable |-> selectable, children |-> <<>>]

\* FeedbackContainer(feedback, selectable, status), feedback being a Thread.
FeedbackContainer(feedback, selectable, status) ==
    [feedback |-> feedback, selectable |-> selectable, children |-> <<>>,
     status |-> status]

\* ProtoFeedback.parent(*feedbacks) on the container c.
Parent(c, feedbacks) == [c EXCEPT !.children = @ \o feedbacks]

\* FeedbackContainer.set_status(status) on the container c.
SetStatus(c, status) == [c EXCEPT !.status = status]

\* Thread.status(state) of the Thread record thr.
ThreadStatus(thr, state) == IF state THEN thr.success_status ELSE thr.fail_status

\* Process.__make_feedback_container: one container per Thread of the class.
MakeFeedbackContainer(th) ==
    [t \in DOMAIN th |-> FeedbackContainer(t, TRUE, DEFAULT)]

\* Mutant of SetContainerStatus: the status is set on the container of every Thread.
SetContainerStatusAll(fc, t, status) ==
    [u \in DOMAIN fc |-> SetStatus(fc[u], status)]

\* self._feedback_container[thread].set_status(status), as set_success, set_fail and
\* set_skipped do it.
SetContainerStatus(fc, t, status) == [fc EXCEPT ![t] = SetStatus(@, status)]

\* Mutant of ProcessGetter: the instance is returned without resolving the overrides.
ProcessGetterUnresolved(p) ==
    IF process # 0
    THEN [process |-> process, created |-> created,
          feedback_container |-> feedback_container, touched |-> touched,
          threads |-> threads, out |-> "ok", made |-> FALSE]
    ELSE [process |-> created + 1, created |-> created + 1,
          feedback_container |-> MakeFeedbackContainer(threads),
          touched |-> {}, threads |-> threads, out |-> "ok", made |-> TRUE]

\* Processor.process of the Processor p, a functools.cached_property: the cached
\* instance if there is one; else a new instance is created, the overrides resolved on
\* it, and it is cached only if the getter returns.
ProcessGetter(p) ==
    IF process # 0
    THEN [process |-> process, created |-> created,
          feedback_container |-> feedback_container, touched |-> touched,
          threads |-> threads, out |-> "ok", made |-> FALSE]
    ELSE LET r == OverrideLoop(threads, p.status_overrides, 1)
         IN [process |-> IF r.out = "ok" THEN created + 1 ELSE 0,
             created |-> created + 1,
             feedback_container |-> MakeFeedbackContainer(threads),
             touched |-> {}, threads |-> r.threads, out |-> r.out, made |-> TRUE]

\* The effect of an evaluation g of the getter on the Processor, its Process and the
\* Threads of the class.
Got(p, g) ==
    /\ process' = g.process
    /\ created' = g.created
    /\ feedback_container' = g.feedback_container
    /\ touched' = g.touched
    /\ threads' = g.threads
    /\ ovLast' = IF g.made
                 THEN [op |-> "override", overrides |-> p.status_overrides,
                       pre |-> threads, out |-> g.out, direct |-> CalledDirectly]
                 ELSE ovLast

\* processor.process, read from outside any method of the Process.
AccessProcess(i) ==
    /\ i \in DOMAIN processors
    /\ running = "none"
    /\ process # 0 \/ created < MaxInstances
    /\ LET g == ProcessGetter(processors[i])
       IN /\ Got(processors[i], g)
          /\ prLast' = [op |-> "process", m |-> "none", thread |-> "none", out |-> g.out]
    /\ UNCHANGED <<running, notPrVars>>

\* Mutant of CallBegin: the method of the Process is entered without the test of
\* has_check_method, has_fix_method or has_tool_method.
CallBeginUntested(i, m) ==
    /\ i \in DOMAIN processors
    /\ running = "none"
    /\ process # 0 \/ created < MaxInstances
    /\ LET g == ProcessGetter(processors[i])
       IN /\ Got(processors[i], g)
          /\ running' = IF g.out = "ok" THEN m ELSE "none"
          /\ prLast' = [op |-> "call", m |-> m, thread |-> "none",
                        out |-> IF g.out = "ok" THEN "entered" ELSE g.out]
    /\ UNCHANGED notPrVars

\* processor.check(), fix() or tool() up to the entry in the method of the Process:
\* None at once when the class does not override the method; else the Process is got,
\* and the exception of the getter leaves the wrapper (the Processor has no link).
CallBegin(i, m) ==
    /\ i \in DOMAIN processors
    /\ running = "none"
    /\ IF ~HasMethod(processors[i].process, m)
       THEN /\ prLast' = [op |-> "call", m |-> m, thread |-> "none", out |-> "None"]
            /\ UNCHANGED <<process, created, feedback_container, touched, running,
                           threads, ovLast, notPrVars>>
       ELSE /\ process # 0 \/ created < MaxInstances
            /\ LET g == ProcessGetter(processors[i])
               IN /\ Got(processors[i], g)
                  /\ running' = IF g.out = "ok" THEN m ELSE "none"
                  /\ prLast' = [op |-> "call", m |-> m, thread |-> "none",
                                out |-> IF g.out = "ok" THEN "entered" ELSE g.out]
            /\ UNCHANGED notPrVars

\* The frame of a step of a method of the Process on its containers.
BodyFrame == UNCHANGED <<process, created, running, threads, ovLast, notPrVars>>

\* self.set_success(thread), self.set_fail(thread), self.set_skipped(thread) in the
\* running method.
SetSuccess(t) ==
    /\ running # "none"
    /\ feedback_container' =
          SetContainerStatus(feedback_container, t, ThreadStatus(threads[t], TRUE))
    /\ touched' = touched \cup {t}
    /\ prLast' = [op |-> "set_success", m |-> running, thread |-> t, out |-> "ok"]
    /\ BodyFrame

SetFail(t) ==
    /\ running # "none"
    /\ feedback_container' =
          SetContainerStatus(feedback_container, t, ThreadStatus(threads[t], FALSE))
    /\ touched' = touched \cup {t}
    /\ prLast' = [op |-> "set_fail", m |-> running, thread |-> t, out |-> "ok"]
    /\ BodyFrame

SetSkipped(t) ==
    /\ running # "none"
    /\ feedback_container' = SetContainerStatus(feedback_container, t, SKIPPED)
    /\ touched' = touched \cup {t}
    /\ prLast' = [op |-> "set_skipped", m |-> running, thread |-> t, out |-> "ok"]
    /\ BodyFrame

\* self.add_feedback(thread, Feedback(f, True)) in the running method.
AddFeedback(t, f) ==
    /\ running # "none"
    /\ Len(feedback_container[t].children) < MaxChildren
    /\ feedback_container' =
          [feedback_container EXCEPT ![t] = Parent(@, <<Feedback(f, TRUE)>>)]
    /\ prLast' = [op |-> "add_feedback", m |-> running, thread |-> t, out |-> "ok"]
    /\ UNCHANGED touched
    /\ BodyFrame

\* Mutant of ClearFeedback: the statuses are reset and the children kept.
ClearFeedbackStatusOnly ==
    /\ process # 0
    /\ feedback_container' =
          [t \in DOMAIN feedback_container |->
              SetStatus(feedback_container[t], DEFAULT)]
    /\ touched' = {}
    /\ prLast' = [op |-> "clear_feedback", m |-> running, thread |-> "none", out |-> "ok",
                  pre |-> feedback_container]
    /\ BodyFrame

\* process.clear_feedback(), from the running method or between two calls.
ClearFeedback ==
    /\ process # 0
    /\ feedback_container' = MakeFeedbackContainer(threads)
    /\ touched' = {}
    /\ prLast' = [op |-> "clear_feedback", m |-> running, thread |-> "none", out |-> "ok",
                  pre |-> feedback_container]
    /\ BodyFrame

\* The method of the Process returns, and the wrapper after it: check and fix return
\* process.get_feedback_containers(), tool the value of the method.
CallReturn(i) ==
    /\ i \in DOMAIN processors
    /\ running # "none"
    /\ running \notin RaisingMethods(processors[i].process)
    /\ running' = "none"
    /\ prLast' = [op |-> "return", m |-> running, thread |-> "none",
                  out |-> IF running = "tool" THEN "value" ELSE "containers"]
    /\ UNCHANGED <<process, created, feedback_container, touched, threads, ovLast,
                   notPrVars>>

\* Mutant of CallRaise: the containers are made anew when the method raises.
CallRaiseClearing(i) ==
    /\ i \in DOMAIN processors
    /\ running \in RaisingMethods(processors[i].process)
    /\ running' = "none"
    /\ feedback_container' = MakeFeedbackContainer(threads)
    /\ prLast' = [op |-> "raise", m |-> running, thread |-> "none", out |-> "Exception"]
    /\ UNCHANGED <<process, created, touched, threads, ovLast, notPrVars>>

\* The method of the Process raises, and the exception leaves the wrapper.
CallRaise(i) ==
    /\ i \in DOMAIN processors
    /\ running \in RaisingMethods(processors[i].process)
    /\ running' = "none"
    /\ prLast' = [op |-> "raise", m |-> running, thread |-> "none", out |-> "Exception"]
    /\ UNCHANGED <<process, created, feedback_container, touched, threads, ovLast,
                   notPrVars>>

\* The Feedback a method registers.
FeedbackNames == {"f1"}

\* The status overrides of the descriptions of the Process specification.
OverrideCatalog ==
    {<<[thread |-> "T1", fail |-> WARNING, success |-> NoStatus]>>,
     <<[thread |-> "T2", fail |-> NoStatus, success |-> CORRECT]>>,
     <<[thread |-> "Missing", fail |-> WARNING, success |-> NoStatus]>>,
     <<[thread |-> "T1", fail |-> CORRECT, success |-> NoStatus]>>,
     <<[thread |-> "T1", fail |-> WARNING, success |-> NoStatus],
       [thread |-> "Missing", fail |-> WARNING, success |-> NoStatus]>>}

\* The Blueprint modules of the Process specification: the header ('A',), A of a class
\* whose methods return, raise or are not all overridden, with or without overrides.
ProcessModules ==
    {[x \in {"A"} |-> d] :
        d \in [process : {"Full", "Failing", "NoCheck"}]
                \cup [process : {"Full"}, status_overrides : OverrideCatalog]}

(***************************************************************************)
(* FEEDBACK NODES: EQUALITY, HASH AND THE SELECTION CASCADE                *)
(*                                                                         *)
(* A node is a Feedback or a FeedbackContainer record; the container is    *)
(* the one with a status. select() and deselect() are computed with every  *)
(* call they make on the nodes below: `calls` holds, in order, the path of *)
(* each node called (child indices from the root) and the replace it got.  *)
(***************************************************************************)
IsContainer(n) == "status" \in DOMAIN n

\* Mutant of StatusEq: statuses of distinct classes are never equal.
StatusEqSameClass(a, b) == FloatEq(a.level, b.level) /\ a.family = b.family

\* Status.__eq__ and Status.__hash__: the levels compared, the tuple hashed. The hash of
\* a tuple is made of the hashes of its items, and the hash of a nan level is that of the
\* float object: two statuses made with a nan of their own have different hashes.
StatusEq(a, b) == FloatEq(a.level, b.level)

StatusHash(a) == <<a.name, a.color, a.level>>

\* The == of two field values inside the tuples a dataclass compares: the same object, or
\* objects that are equal.
FieldEq(a, b) == a = b \/ StatusEq(a, b)

\* Mutant of NodeEq: the fields declared in ProtoFeedback are compared, status is not.
NodeEqByFeedback(a, b) ==
    /\ IsContainer(a) = IsContainer(b)
    /\ a.feedback = b.feedback

\* The __eq__ the dataclass decorator generates: nodes of the same class whose fields of
\* compare=True are equal, feedback for a Feedback, feedback and status for a
\* FeedbackContainer (selectable and children are declared with compare=False).
NodeEq(a, b) ==
    /\ IsContainer(a) = IsContainer(b)
    /\ a.feedback = b.feedback
    /\ IsContainer(a) => FieldEq(a.status, b.status)

\* The __hash__ the dataclass decorator generates: the hash of the tuple of the same
\* fields.
NodeHash(n) ==
    IF IsContainer(n) THEN <<n.feedback, StatusHash(n.status)>> ELSE <<n.feedback>>

\* Mutant of Cascades: every node that is not selectable calls its children.
CascadesWhenNotSelectable(n) == ~n.selectable

\* Whether select() and deselect() on the node call its children: a Feedback does when
\* it is not selectable, a FeedbackContainer when it is selectable.
Cascades(n) == IF IsContainer(n) THEN n.selectable ELSE ~n.selectable

RECURSIVE SelectNode(_, _, _)
RECURSIVE SelectLoop(_, _, _, _)
RECURSIVE SelectLoopSameReplace(_, _, _, _)
\* Mutant of SelectLoop: every child is given the replace of the caller.
SelectLoopSameReplace(n, k, replace, path) ==
    IF k > Len(n.children) THEN [calls |-> <<>>, returned |-> replace]
    ELSE LET here == Append(path, k)
             child == SelectNode(n.children[k], replace, here)
             rest == SelectLoopSameReplace(n, k + 1, replace, path)
         IN [calls |-> <<[path |-> here, replace |-> replace]>>
                          \o child.calls \o rest.calls,
             returned |-> rest.returned]

\* The loop of select() from the k-th child on: the child is called with replace, the
\* children after it with False.
SelectLoop(n, k, replace, path) ==
    IF k > Len(n.children) THEN [calls |-> <<>>, returned |-> replace]
    ELSE LET here == Append(path, k)
             child == SelectNode(n.children[k], replace, here)
             rest == SelectLoop(n, k + 1, FALSE, path)
         IN [calls |-> <<[path |-> here, replace |-> replace]>>
                          \o child.calls \o rest.calls,
             returned |-> rest.returned]

\* Feedback.select(replace) and FeedbackContainer.select(replace) on the node at path.
SelectNode(n, replace, path) ==
    IF Cascades(n) THEN SelectLoop(n, 1, replace, path)
    ELSE [calls |-> <<>>, returned |-> replace]

RECURSIVE DeselectNode(_, _)
RECURSIVE DeselectLoop(_, _, _)
\* The loop of deselect() from the k-th child on.
DeselectLoop(n, k, path) ==
    IF k > Len(n.children) THEN <<>>
    ELSE <<[path |-> Append(path, k), replace |-> FALSE]>>
            \o DeselectNode(n.children[k], Append(path, k))
            \o DeselectLoop(n, k + 1, path)

\* Feedback.deselect() and FeedbackContainer.deselect() on the node at path; deselect
\* takes no replace, the calls are logged with replace FALSE.
DeselectNode(n, path) == IF Cascades(n) THEN DeselectLoop(n, 1, path) ELSE <<>>

\* node.select(replace=replace) on the first node.
Select(replace) ==
    /\ LET r == SelectNode(fbNodes[1], replace, <<>>)
       IN fbLast' = [op |-> "select", replace |-> replace, calls |-> r.calls,
                     returned |-> r.returned]
    /\ UNCHANGED <<fbNodes, notFbVars>>

\* node.deselect() on the first node.
Deselect ==
    /\ fbLast' = [op |-> "deselect", replace |-> FALSE,
                  calls |-> DeselectNode(fbNodes[1], <<>>), returned |-> FALSE]
    /\ UNCHANGED <<fbNodes, notFbVars>>

\* a == b and hash(a) == hash(b) on the two nodes.
CompareNodes ==
    /\ fbLast' = [op |-> "compare", eq |-> NodeEq(fbNodes[1], fbNodes[2]),
                  hash_eq |-> NodeHash(fbNodes[1]) = NodeHash(fbNodes[2])]
    /\ UNCHANGED <<fbNodes, notFbVars>>

\* container.set_status(status) on the first node, a FeedbackContainer: what it was
\* equal to and its hash, before and after.
NodeSetStatus(status) ==
    /\ IsContainer(fbNodes[1])
    /\ fbNodes' = [fbNodes EXCEPT ![1] = SetStatus(@, status)]
    /\ fbLast' = [op |-> "set_status",
                  pre_eq |-> NodeEq(fbNodes[1], fbNodes[2]),
                  eq |-> NodeEq(SetStatus(fbNodes[1], status), fbNodes[2]),
                  hash_kept |-> NodeHash(SetStatus(fbNodes[1], status))
                                    = NodeHash(fbNodes[1])]
    /\ UNCHANGED notFbVars

\* The nodes below a root: a selectable Feedback, and a Feedback that is not selectable
\* and groups two selectable ones.
Leaf == Feedback("f1", TRUE)

Group == Parent(Feedback("f2", FALSE), <<Feedback("f1", TRUE), Feedback("f2", TRUE)>>)

ChildSeqs == UNION {[1..n -> {Leaf, Group}] : n \in 0..MaxCascade}

\* The statuses a FeedbackContainer is given.
NodeStatuses == {DEFAULT, ERROR}

\* The nodes select() and deselect() are called on, and the nodes they are compared with.
RootNodes ==
    {Parent(n, cs) :
        n \in {Feedback(f, sel) : f \in {"f1", "f2"}, sel \in BOOLEAN}
                \cup {FeedbackContainer("T1", sel, st) : sel \in BOOLEAN,
                                                         st \in NodeStatuses},
        cs \in ChildSeqs}

OtherNodes ==
    {Parent(n, cs) :
        n \in {Feedback(f, sel) : f \in {"f1", "f2"}, sel \in BOOLEAN}
                \cup {FeedbackContainer("T1", sel, st) : sel \in BOOLEAN,
                                                         st \in NodeStatuses},
        cs \in {<<>>, <<Leaf>>}}

FbNext ==
    \/ \E replace \in BOOLEAN : Select(replace)
    \/ Deselect
    \/ CompareNodes
    \/ \E status \in NodeStatuses \cup {SKIPPED} : NodeSetStatus(status)

(***************************************************************************)
(* THE STATUSES AND THEIR REGISTRY                                         *)
(*                                                                         *)
(* The registry holds objects: an instance is the record of the attributes *)
(* of a status with the identity `id` of the object, so that two           *)
(* constructions with the same class, name, color and level are two        *)
(* instances. The registry maps each class that was instantiated to the    *)
(* set of its instances.                                                   *)
(***************************************************************************)
ABORTED == Status("_BuiltInStatus", "Aborted", <<100, 100, 100>>, NaN(7))

EXCEPTION == Status("_BuiltInStatus", "Exception", <<125, 125, 125>>, NaN(8))

\* The instance of identity id that a construction of st gives. The float('nan') that
\* the call evaluates for the level is a new float object, which takes the identity of
\* the instance it is made for.
Instance(st, id) ==
    [family |-> st.family, name |-> st.name, color |-> st.color,
     level |-> IF st.level.nan THEN NaN(id) ELSE st.level, id |-> id]

\* _ALL_STATUS once atStatus is imported: the eight statuses of the module, in the order
\* of their construction.
Predefined ==
    [c \in {"FailStatus", "SuccessStatus", "_BuiltInStatus"} |->
        CASE c = "FailStatus" -> {Instance(WARNING, 5), Instance(ERROR, 6)}
          [] c = "SuccessStatus" -> {Instance(SUCCESS, 3), Instance(CORRECT, 4)}
          [] c = "_BuiltInStatus" -> {Instance(DEFAULT, 1), Instance(SKIPPED, 2),
                                      Instance(ABORTED, 7), Instance(EXCEPTION, 8)}]

\* Status.__lt__ and Status.__gt__.
StatusLt(a, b) == FloatLt(a.level, b.level)

StatusGt(a, b) == FloatGt(a.level, b.level)

\* set.add(s) on a set of instances: s is left out when the set holds an element of the
\* same hash that is s or is equal to s.
SetAdd(S, s) ==
    IF \E e \in S : StatusHash(e) = StatusHash(s) /\ (e = s \/ StatusEq(e, s))
    THEN S ELSE S \cup {s}

\* Mutant of RegisterStatus: every status goes to the set of FailStatus.
RegisterStatusOneSet(reg, s) == [reg EXCEPT !["FailStatus"] = SetAdd(@, s)]

\* _ALL_STATUS.setdefault(self.__class__, set()).add(self) in Status.__init__.
RegisterStatus(reg, s) ==
    [c \in DOMAIN reg \cup {s.family} |->
        IF c = s.family
        THEN SetAdd(IF c \in DOMAIN reg THEN reg[c] ELSE {}, s)
        ELSE reg[c]]

\* get_all_statuses(), get_all_fail_status(), get_all_success_status() on a registry.
GetAllStatuses(reg) == UNION {reg[c] : c \in DOMAIN reg}

GetAllFailStatus(reg) == reg["FailStatus"]

GetAllSuccessStatus(reg) == reg["SuccessStatus"]

\* tuple(_ALL_STATUS[cls]): the instances of the set S in the order of its iteration,
\* which follows the hashes of the instances: any order of them.
Orders(S) ==
    {o \in [1..Cardinality(S) -> S] : \A i, j \in DOMAIN o : i # j => o[i] # o[j]}

\* The run that the sort of a list finds at the head of the list s: its length n, and
\* whether it is descending. The run is descending when the second level is below the
\* first, and goes on as long as each level is below the one before it; else it goes on
\* as long as no level is below the one before it. Only < is ever asked of two levels.
CountRun(s) ==
    LET RECURSIVE RunEnd(_, _)
        RunEnd(n, descending) ==
            IF n < Len(s) /\ FloatLt(s[n + 1].level, s[n].level) = descending
            THEN RunEnd(n + 1, descending) ELSE n
    IN IF Len(s) < 2 THEN [n |-> Len(s), descending |-> FALSE]
       ELSE LET d == FloatLt(s[2].level, s[1].level)
            IN [n |-> RunEnd(2, d), descending |-> d]

\* The binary insertion that extends the sorted head s[1..start] of the list s to the
\* whole list: each next item goes to the place a bisection of the head finds for its
\* level, after the items it is not below.
RECURSIVE BinarySort(_, _)
BinarySort(s, start) ==
    IF start >= Len(s) THEN s
    ELSE LET pivot == s[start + 1]
             RECURSIVE Bisect(_, _)
             Bisect(l, r) ==
                 IF l >= r THEN l
                 ELSE LET p == l + ((r - l) \div 2)
                      IN IF FloatLt(pivot.level, s[p + 1].level)
                         THEN Bisect(l, p) ELSE Bisect(p + 1, r)
             l == Bisect(0, start)
         IN BinarySort([i \in 1..Len(s) |->
                           IF i <= l THEN s[i]
                           ELSE IF i = l + 1 THEN pivot
                           ELSE IF i <= start + 1 THEN s[i - 1]
                           ELSE s[i]], start + 1)

\* sorted(s, key=lambda x: x.level) on a list of fewer than 64 items: the run at the head
\* of the list, reversed if it is descending, then extended by binary insertion. With
\* levels that are numbers this is the list in the order of its levels; a nan level is
\* below nothing and nothing is below it, and the result then depends on the order of s.
Sorted(s) ==
    LET c == CountRun(s)
        head == SubSeq(s, 1, c.n)
    IN BinarySort((IF c.descending THEN [i \in 1..c.n |-> head[c.n + 1 - i]] ELSE head)
                      \o SubSeq(s, c.n + 1, Len(s)), c.n)

\* sorted(s, key=lambda x: x.level)[0] and sorted(s, key=lambda x: x.level)[-1].
Lowest(s) == Sorted(s)[1]

Highest(s) == Sorted(s)[Len(s)]

\* lowest_fail_status() and highest_fail_status(), or lowest_success_status() and
\* highest_success_status(), called one after the other on the same set.
Extremes(family) ==
    /\ \E order \in Orders(all_status[family]) :
          stLast' = [op |-> "extremes", family |-> family,
                     lowest |-> Lowest(order), highest |-> Highest(order)]
    /\ UNCHANGED <<all_status, notStVars>>

\* The identity of the next object: one that no registered instance has.
NewId(reg) ==
    1 + (CHOOSE m \in {e.id : e \in GetAllStatuses(reg)} :
            \A e \in GetAllStatuses(reg) : e.id <= m)

\* FailStatus(name, color, level), SuccessStatus(...), _BuiltInStatus(...) or
\* Status(...): a new instance, which __init__ registers. Status derives from abc.ABC and
\* declares no abstract method, so that no class of the module refuses to be
\* instantiated and no construction raises.
Construct(st) ==
    /\ Cardinality(GetAllStatuses(all_status)) - Cardinality(GetAllStatuses(Predefined))
          < MaxStatuses
    /\ LET s == Instance(st, NewId(all_status))
       IN /\ all_status' = RegisterStatus(all_status, s)
          /\ stLast' = [op |-> "construct", a |-> s, b |-> s,
                        lt |-> FALSE, eq |-> FALSE, gt |-> FALSE, raised |-> FALSE]
    /\ UNCHANGED notStVars

\* a < b, a == b and a > b on two instances.
CompareStatuses(a, b) ==
    /\ stLast' = [op |-> "compare", a |-> a, b |-> b,
                  lt |-> StatusLt(a, b), eq |-> StatusEq(a, b), gt |-> StatusGt(a, b)]
    /\ UNCHANGED <<all_status, notStVars>>

\* The statuses constructed after the import: one with the class, name, color and level
\* of WARNING, ones that share its level or its name and color, in either family, ones
\* of another level, ones of a nan level in each family, one more built-in status, and
\* one instance of the base class. Status.__init__ takes any level.
StatusCatalog ==
    {Status("FailStatus", "Warning", <<196, 98, 16>>, Num(1)),
     Status("FailStatus", "Custom", <<255, 0, 0>>, Num(1)),
     Status("FailStatus", "Custom", <<255, 0, 0>>, Num(5)),
     Status("FailStatus", "Custom", <<255, 0, 0>>, NaN(0)),
     Status("SuccessStatus", "Warning", <<196, 98, 16>>, Num(1)),
     Status("SuccessStatus", "Custom", <<255, 0, 0>>, NaN(0)),
     Status("_BuiltInStatus", "Custom", <<255, 0, 0>>, NaN(0)),
     Status("Status", "Custom", <<255, 0, 0>>, Num(5))}

StNext ==
    \/ \E st \in StatusCatalog : Construct(st)
    \/ \E a \in GetAllStatuses(all_status) :
          \E b \in GetAllStatuses(all_status) : CompareStatuses(a, b)
    \/ \E family \in {"FailStatus", "SuccessStatus"} : Extremes(family)

(***************************************************************************)
(* PARAMETERS                                                              *)
(*                                                                         *)
(* One Parameter declared on a Process class and its value on one instance *)
(* of the class. A Python value is a record of its type and its content:   *)
(* PyStr("7"), PyInt(7), PyBool(TRUE) are three different values.          *)
(***************************************************************************)
PyStr(v) == [t |-> "str", s |-> v, i |-> 0]

PyInt(v) == [t |-> "int", s |-> "", i |-> v]

PyBool(v) == [t |-> "bool", s |-> "", i |-> IF v THEN 1 ELSE 0]

None == [t |-> "None", s |-> "", i |-> 0]

\* While no Parameter is declared.
NoParameter == [kind |-> "none"]

\* IntParameter(default, minimum, maximum, keepInRange) declared and read on a new
\* instance: __set_name__ stores the default on the class.
IntParameter(default, minimum, maximum, keepInRange) ==
    [kind |-> "IntParameter", default |-> default, value |-> default,
     minimum |-> minimum, maximum |-> maximum, keep_in_range |-> keepInRange]

\* BoolParameter(default).
BoolParameter(default) ==
    [kind |-> "BoolParameter", default |-> default, value |-> default]

\* StringParameter(default, validation, case_sensitive); validation is a set of str or
\* None.
StringParameter(default, validation, case_sensitive) ==
    [kind |-> "StringParameter", default |-> default, value |-> default,
     validation |-> validation, case_sensitive |-> case_sensitive]

\* int(value) on the strings of the model; the others are not the writing of an integer.
IntOfStr(v) ==
    CASE v = "-3" -> [raised |-> FALSE, i |-> -3]
      [] v = "7" -> [raised |-> FALSE, i |-> 7]
      [] v = "12" -> [raised |-> FALSE, i |-> 12]
      [] OTHER -> [raised |-> TRUE, i |-> 0]

\* str.lower() on the strings of the model.
Lower(v) ==
    CASE v = "Low" -> "low"
      [] v = "HIGH" -> "high"
      [] v = "True" -> "true"
      [] v = "Yes" -> "yes"
      [] OTHER -> v

\* parameter.type_cast(value): the cast value, or the exception that int() or
\* value.lower() raises.
TypeCast(p, value) ==
    CASE p.kind = "BoolParameter" ->
            [exc |-> "none",
             v |-> PyBool((value.t \in {"bool", "int"} /\ value.i = 1)
                            \/ (value.t = "str"
                                  /\ value.s \in {"True", "true", "Yes", "yes", "1"}))]
      [] p.kind = "IntParameter" ->
            IF value.t = "None" THEN [exc |-> "TypeError", v |-> None]
            ELSE IF value.t = "str" /\ IntOfStr(value.s).raised
            THEN [exc |-> "ValueError", v |-> None]
            ELSE LET i == IF value.t = "str" THEN IntOfStr(value.s).i ELSE value.i
                 IN [exc |-> "none",
                     v |-> IF p.keep_in_range /\ p.minimum # None /\ i < p.minimum.i
                           THEN p.minimum
                           ELSE IF p.keep_in_range /\ p.maximum # None /\ i > p.maximum.i
                           THEN p.maximum
                           ELSE PyInt(i)]
      [] p.kind = "StringParameter" ->
            IF value.t = "str" THEN [exc |-> "none", v |-> PyStr(Lower(value.s))]
            ELSE [exc |-> "AttributeError", v |-> None]

\* parameter.validate(value) on a cast value.
Validate(p, value) ==
    CASE p.kind = "BoolParameter" -> value.t = "bool"
      [] p.kind = "IntParameter" ->
            /\ ~(p.minimum # None /\ value.i < p.minimum.i)
            /\ ~(p.maximum # None /\ value.i > p.maximum.i)
      [] p.kind = "StringParameter" ->
            IF p.validation = {} THEN TRUE
            ELSE IF p.case_sensitive THEN value.s \in p.validation
            ELSE Lower(value.s) \in {Lower(x) : x \in p.validation}

\* Mutant of Set: the cast value is stored without validate.
SetUnvalidated(value) ==
    /\ parameter # NoParameter
    /\ LET c == TypeCast(parameter, value)
       IN /\ parameter' = IF c.exc = "none" THEN [parameter EXCEPT !.value = c.v]
                          ELSE parameter
          /\ parLast' = [op |-> "set", arg |-> value, exc |-> c.exc, cast |-> c.v,
                         pre |-> parameter.value]
    /\ UNCHANGED notParVars

\* Parameter.__set__(instance, value), as processor.set_parameter calls it:
\* type_cast, then validate, then setattr if validate returned True.
Set(value) ==
    /\ parameter # NoParameter
    /\ LET c == TypeCast(parameter, value)
       IN /\ parameter' = IF c.exc = "none" /\ Validate(parameter, c.v)
                          THEN [parameter EXCEPT !.value = c.v]
                          ELSE parameter
          /\ parLast' = [op |-> "set", arg |-> value, exc |-> c.exc, cast |-> c.v,
                         pre |-> parameter.value]
    /\ UNCHANGED notParVars

\* Parameter.__delete__(instance).
Delete ==
    /\ parameter # NoParameter
    /\ parameter' = [parameter EXCEPT !.value = parameter.default]
    /\ parLast' = [op |-> "delete", arg |-> None, exc |-> "none", cast |-> None,
                   pre |-> parameter.value]
    /\ UNCHANGED notParVars

\* The Parameters declared: integers with or without bounds and clamping, of a default
\* inside the bounds or above them (__init__ tests the type of the default only),
\* booleans, strings with or without a list of valid strings.
Parameters ==
    {IntParameter(PyInt(5), mn, mx, k) :
        mn \in {None, PyInt(0)}, mx \in {None, PyInt(10)}, k \in BOOLEAN}
      \cup {IntParameter(PyInt(12), PyInt(0), PyInt(10), k) : k \in BOOLEAN}
      \cup {BoolParameter(PyBool(b)) : b \in BOOLEAN}
      \cup {StringParameter(PyStr("low"), v, cs) :
                v \in {{}, {"low", "high"}, {"low", "HIGH"}}, cs \in BOOLEAN}

\* The values assigned.
Values ==
    {PyInt(i) : i \in {-3, 0, 1, 7, 10, 12}} \cup {PyBool(b) : b \in BOOLEAN}
      \cup {PyStr(x) : x \in {"-3", "7", "12", "abc", "Low", "HIGH", "high", "True", "yes"}}
      \cup {None}

ParNext ==
    \/ \E value \in Values : Set(value)
    \/ Delete

(***************************************************************************)
(* SPECIFICATIONS                                                          *)
(***************************************************************************)
\* Every subsystem as built: an empty Register, a Process that nobody interrupted.
Init ==
    /\ blueprints = <<>>
    /\ current_blueprint = NoBlueprint
    /\ nextObj = 1
    /\ regLast = [op |-> "init", arg |-> NoBlueprint, pre |-> <<>>,
                  preCurrent |-> NoBlueprint, out |-> "ok"]
    /\ do_interrupt = FALSE
    /\ callbacks = <<>>
    /\ intLast = [op |-> "init", preFlag |-> FALSE, fired |-> FALSE, ran |-> 0,
                  setDuring |-> FALSE, out |-> "returned"]
    /\ header = <<>>
    /\ descriptions = <<>>
    /\ processors = <<>>
    /\ bpBuilt = "unbuilt"
    /\ bpLast = [op |-> "init"]
    /\ imported = {}
    /\ process = 0
    /\ created = 0
    /\ feedback_container = <<>>
    /\ touched = {}
    /\ running = "none"
    /\ prLast = [op |-> "init"]
    /\ threads = [t \in {"T1", "T2"} |-> Thread(t, ERROR, SUCCESS)]
    /\ ovLast = [op |-> "init"]
    /\ fbNodes = <<>>
    /\ fbLast = [op |-> "init"]
    /\ parameter = NoParameter
    /\ parLast = [op |-> "init"]
    /\ all_status = Predefined
    /\ stLast = [op |-> "init"]

SpecRegister == Init /\ [][RegNext]_vars

SpecInterrupt == Init /\ [][IntNext]_vars

SpecOverride == Init /\ [][OvNext]_vars

\* A Blueprint of any of the modules of the build specification, not yet built.
InitBuild ==
    /\ blueprints = <<>>
    /\ current_blueprint = NoBlueprint
    /\ nextObj = 1
    /\ regLast = [op |-> "init", arg |-> NoBlueprint, pre |-> <<>>,
                  preCurrent |-> NoBlueprint, out |-> "ok"]
    /\ do_interrupt = FALSE
    /\ callbacks = <<>>
    /\ intLast = [op |-> "init", preFlag |-> FALSE, fired |-> FALSE, ran |-> 0,
                  setDuring |-> FALSE, out |-> "returned"]
    /\ header \in Headers
    /\ descriptions \in BuildModules
    /\ processors = <<>>
    /\ bpBuilt = "unbuilt"
    /\ bpLast = [op |-> "init"]
    /\ imported = {}
    /\ process = 0
    /\ created = 0
    /\ feedback_container = <<>>
    /\ touched = {}
    /\ running = "none"
    /\ prLast = [op |-> "init"]
    /\ threads = [t \in {"T1", "T2"} |-> Thread(t, ERROR, SUCCESS)]
    /\ ovLast = [op |-> "init"]
    /\ fbNodes = <<>>
    /\ fbLast = [op |-> "init"]
    /\ parameter = NoParameter
    /\ parLast = [op |-> "init"]
    /\ all_status = Predefined
    /\ stLast = [op |-> "init"]

BuildNext == Processors

\* A Blueprint of any of the modules of the link resolution specification, not yet built.
InitResolve ==
    /\ blueprints = <<>>
    /\ current_blueprint = NoBlueprint
    /\ nextObj = 1
    /\ regLast = [op |-> "init", arg |-> NoBlueprint, pre |-> <<>>,
                  preCurrent |-> NoBlueprint, out |-> "ok"]
    /\ do_interrupt = FALSE
    /\ callbacks = <<>>
    /\ intLast = [op |-> "init", preFlag |-> FALSE, fired |-> FALSE, ran |-> 0,
                  setDuring |-> FALSE, out |-> "returned"]
    /\ header = <<"A", "B">>
    /\ descriptions \in ResolveModules
    /\ processors = <<>>
    /\ bpBuilt = "unbuilt"
    /\ bpLast = [op |-> "init"]
    /\ imported = {}
    /\ process = 0
    /\ created = 0
    /\ feedback_container = <<>>
    /\ touched = {}
    /\ running = "none"
    /\ prLast = [op |-> "init"]
    /\ threads = [t \in {"T1", "T2"} |-> Thread(t, ERROR, SUCCESS)]
    /\ ovLast = [op |-> "init"]
    /\ fbNodes = <<>>
    /\ fbLast = [op |-> "init"]
    /\ parameter = NoParameter
    /\ parLast = [op |-> "init"]
    /\ all_status = Predefined
    /\ stLast = [op |-> "init"]

ResolveNext ==
    \/ Processors
    \/ \E i \in DOMAIN processors : \E linked_objects \in LinkedObjects(processors) :
          \E names \in {DefaultNames, SwappedNames} :
             ResolveLinks(i, linked_objects, names)

SpecResolve == InitResolve /\ [][ResolveNext]_vars

\* A Blueprint of any of the modules of the run specification, not yet built.
InitRun ==
    /\ blueprints = <<>>
    /\ current_blueprint = NoBlueprint
    /\ nextObj = 1
    /\ regLast = [op |-> "init", arg |-> NoBlueprint, pre |-> <<>>,
                  preCurrent |-> NoBlueprint, out |-> "ok"]
    /\ do_interrupt = FALSE
    /\ callbacks = <<>>
    /\ intLast = [op |-> "init", preFlag |-> FALSE, fired |-> FALSE, ran |-> 0,
                  setDuring |-> FALSE, out |-> "returned"]
    /\ header = <<"A", "B">>
    /\ descriptions \in RunModules
    /\ processors = <<>>
    /\ bpBuilt = "unbuilt"
    /\ bpLast = [op |-> "init"]
    /\ imported = {}
    /\ process = 0
    /\ created = 0
    /\ feedback_container = <<>>
    /\ touched = {}
    /\ running = "none"
    /\ prLast = [op |-> "init"]
    /\ threads = [t \in {"T1", "T2"} |-> Thread(t, ERROR, SUCCESS)]
    /\ ovLast = [op |-> "init"]
    /\ fbNodes = <<>>
    /\ fbLast = [op |-> "init"]
    /\ parameter = NoParameter
    /\ parLast = [op |-> "init"]
    /\ all_status = Predefined
    /\ stLast = [op |-> "init"]

RunNext ==
    \/ Processors
    \/ \E i \in DOMAIN processors : \E links \in BOOLEAN : Check(i, links)
    \/ \E i \in DOMAIN processors : \E links \in BOOLEAN : Fix(i, links)
    \/ \E i \in DOMAIN processors : \E links \in BOOLEAN : Tool(i, links)

SpecRun == InitRun /\ [][RunNext]_vars

SpecBuild == InitBuild /\ [][BuildNext]_vars

\* A Blueprint of any of the modules of the tags specification, not yet built.
InitTags ==
    /\ blueprints = <<>>
    /\ current_blueprint = NoBlueprint
    /\ nextObj = 1
    /\ regLast = [op |-> "init", arg |-> NoBlueprint, pre |-> <<>>,
                  preCurrent |-> NoBlueprint, out |-> "ok"]
    /\ do_interrupt = FALSE
    /\ callbacks = <<>>
    /\ intLast = [op |-> "init", preFlag |-> FALSE, fired |-> FALSE, ran |-> 0,
                  setDuring |-> FALSE, out |-> "returned"]
    /\ header = <<"A">>
    /\ descriptions \in TagModules
    /\ processors = <<>>
    /\ bpBuilt = "unbuilt"
    /\ bpLast = [op |-> "init"]
    /\ imported = {}
    /\ process = 0
    /\ created = 0
    /\ feedback_container = <<>>
    /\ touched = {}
    /\ running = "none"
    /\ prLast = [op |-> "init"]
    /\ threads = [t \in {"T1", "T2"} |-> Thread(t, ERROR, SUCCESS)]
    /\ ovLast = [op |-> "init"]
    /\ fbNodes = <<>>
    /\ fbLast = [op |-> "init"]
    /\ parameter = NoParameter
    /\ parLast = [op |-> "init"]
    /\ all_status = Predefined
    /\ stLast = [op |-> "init"]

TagsNext == Processors

SpecTags == InitTags /\ [][TagsNext]_vars

\* A Blueprint of any of the modules of the Process specification, not yet built.
InitProcess ==
    /\ blueprints = <<>>
    /\ current_blueprint = NoBlueprint
    /\ nextObj = 1
    /\ regLast = [op |-> "init", arg |-> NoBlueprint, pre |-> <<>>,
                  preCurrent |-> NoBlueprint, out |-> "ok"]
    /\ do_interrupt = FALSE
    /\ callbacks = <<>>
    /\ intLast = [op |-> "init", preFlag |-> FALSE, fired |-> FALSE, ran |-> 0,
                  setDuring |-> FALSE, out |-> "returned"]
    /\ header = <<"A">>
    /\ descriptions \in ProcessModules
    /\ processors = <<>>
    /\ bpBuilt = "unbuilt"
    /\ bpLast = [op |-> "init"]
    /\ imported = {}
    /\ process = 0
    /\ created = 0
    /\ feedback_container = <<>>
    /\ touched = {}
    /\ running = "none"
    /\ prLast = [op |-> "init"]
    /\ threads = [t \in {"T1", "T2"} |-> Thread(t, ERROR, SUCCESS)]
    /\ ovLast = [op |-> "init"]
    /\ fbNodes = <<>>
    /\ fbLast = [op |-> "init"]
    /\ parameter = NoParameter
    /\ parLast = [op |-> "init"]
    /\ all_status = Predefined
    /\ stLast = [op |-> "init"]

ProcessNext ==
    \/ Processors
    \/ \E i \in DOMAIN processors : AccessProcess(i)
    \/ \E i \in DOMAIN processors : \E m \in Methods : CallBegin(i, m)
    \/ \E t \in DOMAIN threads : SetSuccess(t)
    \/ \E t \in DOMAIN threads : SetFail(t)
    \/ \E t \in DOMAIN threads : SetSkipped(t)
    \/ \E t \in DOMAIN threads : \E f \in FeedbackNames : AddFeedback(t, f)
    \/ ClearFeedback
    \/ \E i \in DOMAIN processors : CallReturn(i)
    \/ \E i \in DOMAIN processors : CallRaise(i)

SpecProcess == InitProcess /\ [][ProcessNext]_vars

\* Two feedback nodes, as built by their constructors and parent().
InitFeedback ==
    /\ blueprints = <<>>
    /\ current_blueprint = NoBlueprint
    /\ nextObj = 1
    /\ regLast = [op |-> "init", arg |-> NoBlueprint, pre |-> <<>>,
                  preCurrent |-> NoBlueprint, out |-> "ok"]
    /\ do_interrupt = FALSE
    /\ callbacks = <<>>
    /\ intLast = [op |-> "init", preFlag |-> FALSE, fired |-> FALSE, ran |-> 0,
                  setDuring |-> FALSE, out |-> "returned"]
    /\ header = <<>>
    /\ descriptions = <<>>
    /\ processors = <<>>
    /\ bpBuilt = "unbuilt"
    /\ bpLast = [op |-> "init"]
    /\ imported = {}
    /\ process = 0
    /\ created = 0
    /\ feedback_container = <<>>
    /\ touched = {}
    /\ running = "none"
    /\ prLast = [op |-> "init"]
    /\ threads = [t \in {"T1", "T2"} |-> Thread(t, ERROR, SUCCESS)]
    /\ ovLast = [op |-> "init"]
    /\ fbNodes \in {<<a, b>> : a \in RootNodes, b \in OtherNodes}
    /\ fbLast = [op |-> "init"]
    /\ parameter = NoParameter
    /\ parLast = [op |-> "init"]
    /\ all_status = Predefined
    /\ stLast = [op |-> "init"]

SpecFeedback == InitFeedback /\ [][FbNext]_vars

SpecStatus == Init /\ [][StNext]_vars

\* A Parameter declared on the class, read on a new instance.
InitParameter ==
    /\ blueprints = <<>>
    /\ current_blueprint = NoBlueprint
    /\ nextObj = 1
    /\ regLast = [op |-> "init", arg |-> NoBlueprint, pre |-> <<>>,
                  preCurrent |-> NoBlueprint, out |-> "ok"]
    /\ do_interrupt = FALSE
    /\ callbacks = <<>>
    /\ intLast = [op |-> "init", preFlag |-> FALSE, fired |-> FALSE, ran |-> 0,
                  setDuring |-> FALSE, out |-> "returned"]
    /\ header = <<>>
    /\ descriptions = <<>>
    /\ processors = <<>>
    /\ bpBuilt = "unbuilt"
    /\ bpLast = [op |-> "init"]
    /\ imported = {}
    /\ process = 0
    /\ created = 0
    /\ feedback_container = <<>>
    /\ touched = {}
    /\ running = "none"
    /\ prLast = [op |-> "init"]
    /\ threads = [t \in {"T1", "T2"} |-> Thread(t, ERROR, SUCCESS)]
    /\ ovLast = [op |-> "init"]
    /\ fbNodes = <<>>
    /\ fbLast = [op |-> "init"]
    /\ parameter \in Parameters
    /\ parLast = [op |-> "init"]
    /\ all_status = Predefined
    /\ stLast = [op |-> "init"]

SpecParameter == InitParameter /\ [][ParNext]_vars

(***************************************************************************)
(* CLAIMS ON THE REGISTER                                                  *)
(***************************************************************************)
\* Two Blueprints of the same module file path.
SameFile(a, b) == a.obj # 0 /\ b.obj # 0 /\ a.module.file = b.module.file

\* C4: Register.load_blueprint_from_module(m): when the Register holds a Blueprint equal
\* to the new one (same module file), the new Blueprint takes that entry's index and the
\* length and every other entry are unchanged; otherwise the new Blueprint is appended.
C4_LoadReplacesInPlaceOrAppends ==
    regLast.op = "load" =>
        LET pre == regLast.pre
            new == regLast.arg
        IN IF \E i \in DOMAIN pre : SameFile(pre[i], new)
           THEN /\ Len(blueprints) = Len(pre)
                /\ \A i \in DOMAIN pre :
                      blueprints[i] = IF SameFile(pre[i], new) THEN new ELSE pre[i]
           ELSE blueprints = Append(pre, new)

\* A load that replaced the first of at least two entries, the replaced Blueprint coming
\* from another module object of the same file.
C4_Witness ==
    /\ regLast.op = "load"
    /\ Len(regLast.pre) >= 2
    /\ SameFile(regLast.pre[1], regLast.arg)
    /\ regLast.pre[1].module # regLast.arg.module
    /\ blueprints[1] = regLast.arg

\* C5: after Register.reload() returns, the list of Blueprints has the length it had
\* before and the Blueprint at every index has the name of the one that was there.
C5_ReloadKeepsNamesByIndex ==
    (regLast.op = "reload" /\ regLast.out = "ok") =>
        /\ Len(blueprints) = Len(regLast.pre)
        /\ \A i \in DOMAIN regLast.pre : blueprints[i].name = regLast.pre[i].name

\* A reload that returned, of two Blueprints of different names, which were rebuilt.
C5_Witness ==
    /\ regLast.op = "reload"
    /\ regLast.out = "ok"
    /\ Len(regLast.pre) >= 2
    /\ regLast.pre[1].name # regLast.pre[2].name
    /\ blueprints[1].obj # regLast.pre[1].obj

\* C6: the assignment register.current_blueprint = b changes the current Blueprint only
\* to b and only when the list holds a Blueprint equal to b (list membership, by module
\* file); for any other b the current Blueprint is unchanged and nothing is raised. The
\* list is never changed.
C6_CurrentOnlySetToPresent ==
    regLast.op = "set" =>
        /\ blueprints = regLast.pre
        /\ regLast.out = "ok"
        /\ current_blueprint # regLast.preCurrent =>
              /\ current_blueprint = regLast.arg
              /\ \E i \in DOMAIN regLast.pre : SameFile(regLast.pre[i], regLast.arg)
        /\ (~\E i \in DOMAIN regLast.pre : SameFile(regLast.pre[i], regLast.arg)) =>
              current_blueprint = regLast.preCurrent

\* An assignment of a Blueprint the non empty list does not hold, which left a current
\* Blueprint in place.
C6_Witness ==
    /\ regLast.op = "set"
    /\ IsBlueprint(regLast.arg)
    /\ regLast.pre # <<>>
    /\ ~\E i \in DOMAIN regLast.pre : SameFile(regLast.pre[i], regLast.arg)
    /\ IsBlueprint(regLast.preCurrent)
    /\ current_blueprint = regLast.preCurrent

(***************************************************************************)
(* CLAIMS ON THE INTERRUPTION                                              *)
(***************************************************************************)
\* C3: whenever the interruption flag has been set by _register_interruption, before
\* listen_for_user_interruption() is entered or by a callback of the event during it, the
\* call fires the event, raises the execution-interrupted error and leaves the flag
\* cleared.
C3_ListenRaisesAndClears ==
    (intLast.op = "listen" /\ (intLast.preFlag \/ intLast.setDuring)) =>
        /\ intLast.fired
        /\ intLast.out = "interrupted"
        /\ ~do_interrupt

(***************************************************************************)
(* CLAIMS ON THE BUILD OF THE PROCESSORS                                   *)
(***************************************************************************)
\* The header entries that are keys of the descriptions, in header order.
DescribedEntries ==
    LET Described(id) == id \in DOMAIN descriptions
    IN SelectSeq(header, Described)

\* C7: when blueprint.processors returns, it holds one Processor for each header entry
\* that is a key of the descriptions, in header order, built from the description of the
\* entry, and none for any other id; an entry tagged DISABLED keeps its Processor, whose
\* is_enabled is False.
C7_OneProcessorPerDescribedEntry ==
    (bpLast.op = "processors" /\ bpLast.out = "ok") =>
        /\ Len(processors) = Len(DescribedEntries)
        /\ \A i \in DOMAIN processors :
              LET d == descriptions[DescribedEntries[i]]
              IN /\ processors[i].id = DescribedEntries[i]
                 /\ processors[i].process = d.process
                 /\ processors[i].caps.is_enabled =
                        ~("tags" \in DOMAIN d /\ d.tags % 2 = 1)

\* The header ('A', 'B') with B tagged DISABLED: two Processors, the second not enabled.
C7_Witness ==
    /\ bpLast.op = "processors"
    /\ bpLast.out = "ok"
    /\ header = <<"A", "B">>
    /\ "B" \in DOMAIN descriptions
    /\ "tags" \in DOMAIN descriptions["B"]
    /\ descriptions["B"].tags = DISABLED
    /\ Len(processors) = 2
    /\ ~processors[2].caps.is_enabled

\* The Processor a link to the id reaches: the last one built for the id.
LastBuilt(id) ==
    CHOOSE i \in DOMAIN processors :
        /\ processors[i].id = id
        /\ \A j \in DOMAIN processors : j > i => processors[j].id # id

\* The method of a Processor a driven kind names.
MethodNamed(kind) ==
    CASE kind = "CHECK" -> "check" [] kind = "FIX" -> "fix" [] kind = "TOOL" -> "tool"

\* The bound methods expected under a driver kind from the first n declared links: one
\* for each link of that driver kind whose target is applicable in batch, in order.
RECURSIVE ExpectedBucket(_, _, _)
ExpectedBucket(links, kind, n) ==
    IF n = 0 THEN <<>>
    ELSE LET link == links[n]
             rest == ExpectedBucket(links, kind, n - 1)
         IN IF link.driver = kind /\ ~TagHas(TagsOf(descriptions[link.id]), NO_BATCH)
            THEN Append(rest, [target |-> LastBuilt(link.id),
                               method |-> MethodNamed(link.driven)])
            ELSE rest

\* Every described header entry names a class that can be imported, and every link
\* declared by a described header entry targets a described header entry.
BuildCanResolve ==
    \A n \in DOMAIN DescribedEntries :
        LET d == descriptions[DescribedEntries[n]]
        IN /\ d.process # "Missing"
           /\ \A k \in DOMAIN LinksOf(d) :
                 \E m \in DOMAIN DescribedEntries : DescribedEntries[m] = LinksOf(d)[k].id

\* C9: blueprint.processors resolves every declared link whatever the header positions
\* of its source and its target: when every link targets a described header entry, the
\* getter returns and each Processor holds, under each driver kind, the bound methods of
\* its links whose target is applicable in batch, be the target before or after it.
C9_LinksResolvedWhateverTheOrder ==
    (bpLast.op = "processors" /\ BuildCanResolve) =>
        /\ bpLast.out = "ok"
        /\ \A i \in DOMAIN processors : \A kind \in LinkKinds :
              processors[i].links_data[kind] =
                  ExpectedBucket(processors[i].links, kind, Len(processors[i].links))

\* Two Processors linked to each other, both links resolved: one targets a later header
\* entry, the other an earlier one.
C9_Witness ==
    /\ bpLast.op = "processors"
    /\ bpLast.out = "ok"
    /\ Len(processors) = 2
    /\ \E kind \in LinkKinds :
          /\ Len(processors[1].links_data[kind]) = 1
          /\ processors[1].links_data[kind][1].target = 2
    /\ \E kind \in LinkKinds :
          /\ Len(processors[2].links_data[kind]) = 1
          /\ processors[2].links_data[kind][1].target = 1

(***************************************************************************)
(* CLAIMS ON THE RESOLUTION OF THE LINKS                                   *)
(***************************************************************************)
\* The bound methods expected under a driver kind from the first n declared links and a
\* dict of linked objects: one for each link of that driver kind whose target the dict
\* maps to a Processor, on that Processor and named by the driven kind, in declared order.
RECURSIVE ExpectedResolved(_, _, _, _, _)
ExpectedResolved(links, kind, linked_objects, names, n) ==
    IF n = 0 THEN <<>>
    ELSE LET link == links[n]
             rest == ExpectedResolved(links, kind, linked_objects, names, n - 1)
         IN IF /\ link.driver = kind
               /\ link.id \in DOMAIN linked_objects
               /\ linked_objects[link.id] # 0
            THEN Append(rest, [target |-> linked_objects[link.id],
                               method |-> names[link.driven]])
            ELSE rest

\* C8: when resolve_links(linked_objects, check, fix, tool) returns, the Processor holds
\* under each driver kind exactly the bound methods of its declared links of that driver
\* kind whose target the dict maps to a Processor (not to None), each the method of the
\* target named by the driven kind, in declared order; and it returns whenever the dict
\* holds every target id, a target mapped to None being skipped without error.
C8_ResolveLinksBuckets ==
    bpLast.op = "resolve_links" =>
        LET p == processors[bpLast.proc]
            lo == bpLast.linked_objects
        IN /\ bpLast.out = "ok" =>
                \A kind \in LinkKinds :
                    p.links_data[kind] =
                        ExpectedResolved(p.links, kind, lo, bpLast.names, Len(p.links))
           /\ (\A k \in DOMAIN p.links : p.links[k].id \in DOMAIN lo) => bpLast.out = "ok"
           /\ bpLast.names = DefaultNames =>
                \A kind \in LinkKinds : \A k \in DOMAIN p.links_data[kind] :
                    \E n \in DOMAIN p.links :
                        p.links_data[kind][k].method = MethodNamed(p.links[n].driven)

\* A call that returned on a Processor with two declared links, one whose target the dict
\* maps to None and was skipped, one whose target was resolved.
C8_Witness ==
    /\ bpLast.op = "resolve_links"
    /\ bpLast.out = "ok"
    /\ bpLast.names = DefaultNames
    /\ LET p == processors[bpLast.proc]
           lo == bpLast.linked_objects
       IN /\ Len(p.links) = 2
          /\ DOMAIN lo = {"A", "B"}
          /\ lo[p.links[1].id] = 0
          /\ lo[p.links[2].id] # 0
          /\ p.links_data[p.links[2].driver] =
                <<[target |-> lo[p.links[2].id], method |-> MethodNamed(p.links[2].driven)]>>
          /\ \A kind \in LinkKinds \ {p.links[2].driver} : p.links_data[kind] = <<>>

(***************************************************************************)
(* CLAIMS ON THE WRAPPERS AND THEIR LINKS                                  *)
(***************************************************************************)
\* How many times the log shows the wrapper m of the i-th Processor entered.
Invocations(log, i, m) ==
    Cardinality({k \in DOMAIN log :
                    log[k].ev = "call" /\ log[k].proc = i /\ log[k].method = m})

\* The wrappers entered by the top level call itself, through its own links, in order.
DirectCalls(log) ==
    LET Direct(e) == e.ev = "call" /\ e.depth = 2
    IN SelectSeq(log, Direct)

\* C1: when the check of the wrapped Process raises and the Processor holds exactly one
\* resolved link driven by CHECK, to the Processor Z, check(links=True) invokes the
\* linked method of Z exactly once and the exception that then reaches the caller is the
\* one check raised.
C1_LinkRunsThenCheckExceptionPropagates ==
    (/\ bpLast.op = "check"
     /\ bpLast.links
     /\ Len(processors[bpLast.proc].links_data["CHECK"]) = 1
     /\ \E k \in DOMAIN bpLast.log :
           bpLast.log[k].ev = "run" /\ bpLast.log[k].depth = 1 /\ bpLast.log[k].raised) =>
        LET z == processors[bpLast.proc].links_data["CHECK"][1]
        IN /\ Len(DirectCalls(bpLast.log)) = 1
           /\ DirectCalls(bpLast.log)[1].proc = z.target
           /\ DirectCalls(bpLast.log)[1].method = z.method
           /\ bpLast.exc = ProcessException(bpLast.proc, "check", 1)

\* The wrappers a wrapper enters through its resolved links, when the class overrides
\* the method (else the wrapper returns before any link).
LinkedFrom(n) ==
    IF HasMethod(processors[n[1]].process, n[2])
    THEN {<<e.target, e.method>> : e \in Range(processors[n[1]].links_data[LinkOf(n[2])])}
    ELSE {}

RECURSIVE LinkedWithin(_, _)
LinkedWithin(S, steps) ==
    IF steps = 0 THEN S
    ELSE LinkedWithin(S \cup UNION {LinkedFrom(n) : n \in S}, steps - 1)

\* The wrapper is entered again by the links it runs, directly or not.
OnLinkCycle(n) ==
    n \in LinkedWithin(LinkedFrom(n), Cardinality((DOMAIN processors) \X Methods))

\* The call is a check of a Processor whose only declared link is (B, CHECK, TOOL),
\* resolved with B not excluded.
ChecksWithToolLink ==
    /\ bpLast.op = "check"
    /\ Len(processors[bpLast.proc].links) = 1
    /\ processors[bpLast.proc].links[1].driver = "CHECK"
    /\ processors[bpLast.proc].links[1].driven = "TOOL"
    /\ Len(processors[bpLast.proc].links_data["CHECK"]) = 1

\* C2 as stated: A declaring the link (B, CHECK, TOOL), resolved with B not excluded, one
\* call A.check(links=True) invokes B.tool exactly once and one call A.check(links=False)
\* invokes it zero times.
C2_Original ==
    ChecksWithToolLink =>
        LET b == processors[bpLast.proc].links_data["CHECK"][1]
        IN Invocations(bpLast.log, b.target, "tool") = IF bpLast.links THEN 1 ELSE 0

\* C2, amended: the same, provided the Process class of A overrides check and no chain of
\* resolved links leads from B.tool back to B.tool; A.check(links=False) invokes B.tool
\* zero times in every case.
C2_ToolLinkRunsOnceWhenCheckOverridden ==
    ChecksWithToolLink =>
        LET b == processors[bpLast.proc].links_data["CHECK"][1]
        IN /\ ~bpLast.links => Invocations(bpLast.log, b.target, "tool") = 0
           /\ (/\ bpLast.links
               /\ HasMethod(processors[bpLast.proc].process, "check")
               /\ ~OnLinkCycle(<<b.target, "tool">>)) =>
                 Invocations(bpLast.log, b.target, "tool") = 1

\* A.check(links=True) returned after the check of A ran and B.tool was entered once and
\* ran, A declaring only (B, CHECK, TOOL).
C2_Witness ==
    /\ ChecksWithToolLink
    /\ bpLast.links
    /\ bpLast.proc = 1
    /\ processors[1].links_data["CHECK"][1].target = 2
    /\ bpLast.exc = NoException
    /\ Invocations(bpLast.log, 2, "tool") = 1
    /\ \E k \in DOMAIN bpLast.log :
          bpLast.log[k].ev = "run" /\ bpLast.log[k].proc = 2 /\ bpLast.log[k].method = "tool"

(***************************************************************************)
(* CLAIMS ON THE STATUS OVERRIDES                                          *)
(***************************************************************************)
\* The entry supplies a SuccessStatus under the FailStatus key or a FailStatus under the
\* SuccessStatus key.
WrongFamily(o) == o.fail.family = "SuccessStatus" \/ o.success.family = "FailStatus"

\* C10: when an entry of the overrides supplies a SuccessStatus value under the
\* FailStatus key, or a FailStatus value under the SuccessStatus key, the resolution
\* raises a configuration error; and whatever the Threads held before it, a resolution
\* never changes the fail status of a Thread to a value that is not a FailStatus, nor
\* its success status to a value that is not a SuccessStatus.
C10_WrongFamilyRaisesAndIsNotStored ==
    ovLast.op = "override" =>
        /\ \A t \in DOMAIN threads :
              /\ threads[t].fail_status # ovLast.pre[t].fail_status =>
                    IsFailStatus(threads[t].fail_status)
              /\ threads[t].success_status # ovLast.pre[t].success_status =>
                    IsSuccessStatus(threads[t].success_status)
        /\ (\E k \in DOMAIN ovLast.overrides : WrongFamily(ovLast.overrides[k])) =>
              ovLast.out \in {"RuntimeError: no thread", "RuntimeError: fail status",
                              "RuntimeError: success status"}

\* A resolution that applied the valid entry of T1, then raised on the entry of T2, which
\* supplies a SuccessStatus under the FailStatus key; T2 keeps its fail status.
C10_Witness ==
    /\ ovLast.op = "override"
    /\ Len(ovLast.overrides) = 2
    /\ ovLast.overrides[1] = [thread |-> "T1", fail |-> WARNING, success |-> NoStatus]
    /\ ovLast.overrides[2].thread = "T2"
    /\ ovLast.overrides[2].fail = CORRECT
    /\ ovLast.out = "RuntimeError: fail status"
    /\ threads["T1"].fail_status = WARNING
    /\ threads["T2"].fail_status = ovLast.pre["T2"].fail_status

\* The fail status and the success status that the last operation on the Threads
\* supplied for the Thread t: the values of the entries of t for a resolution, the
\* argument for a call of Thread.override_fail_status or Thread.override_success_status.
SuppliedFail(t) ==
    CASE ovLast.op = "override" ->
            {ovLast.overrides[k].fail :
                k \in {j \in DOMAIN ovLast.overrides : ovLast.overrides[j].thread = t}}
      [] ovLast.op = "override_fail_status" ->
            IF ovLast.thread = t THEN {ovLast.status} ELSE {}
      [] OTHER -> {}

SuppliedSuccess(t) ==
    CASE ovLast.op = "override" ->
            {ovLast.overrides[k].success :
                k \in {j \in DOMAIN ovLast.overrides : ovLast.overrides[j].thread = t}}
      [] ovLast.op = "override_success_status" ->
            IF ovLast.thread = t THEN {ovLast.status} ELSE {}
      [] OTHER -> {}

\* C12: a resolution of status overrides, and a call of Thread.override_fail_status or
\* Thread.override_success_status, leave the title, the default fail status and the
\* default success status of every Thread as they were; the active fail status of a
\* Thread changes only to a value supplied for that Thread as a fail status, and its
\* active success status only to a value supplied for that Thread as a success status,
\* so an override of one kind leaves the other status alone; a direct call stores the
\* status it is given.
C12_OverrideReplacesOnlyTheActiveStatus ==
    ovLast.op # "init" =>
        \A t \in DOMAIN threads :
            /\ threads[t].fail_status # ovLast.pre[t].fail_status =>
                  threads[t].fail_status \in SuppliedFail(t)
            /\ threads[t].success_status # ovLast.pre[t].success_status =>
                  threads[t].success_status \in SuppliedSuccess(t)
            /\ (ovLast.op = "override_fail_status" /\ ovLast.thread = t) =>
                  threads[t].fail_status = ovLast.status
            /\ (ovLast.op = "override_success_status" /\ ovLast.thread = t) =>
                  threads[t].success_status = ovLast.status
            /\ threads[t].title = ovLast.pre[t].title
            /\ threads[t].default_fail_status = ovLast.pre[t].default_fail_status
            /\ threads[t].default_success_status = ovLast.pre[t].default_success_status

\* A resolution of a fail override alone on T1: T1 has the new fail status, its former
\* success status and its defaults.
C12_Witness ==
    /\ ovLast.op = "override"
    /\ ovLast.out = "ok"
    /\ ovLast.overrides = <<[thread |-> "T1", fail |-> WARNING, success |-> NoStatus]>>
    /\ ovLast.pre["T1"].fail_status = ERROR
    /\ ovLast.pre["T1"].success_status = CORRECT
    /\ threads["T1"].fail_status = WARNING
    /\ threads["T1"].success_status = CORRECT
    /\ threads["T1"].default_fail_status = ERROR
    /\ threads["T1"].default_success_status = SUCCESS

(***************************************************************************)
(* CLAIMS ON THE TAGS OF A PROCESSOR                                       *)
(***************************************************************************)
\* C13: whatever the tag value of a Processor, if it has the DISABLED bit the Processor
\* is not enabled, whatever its other bits, and if it has the NO_CHECK bit the Processor
\* is not checkable, even when its Process class overrides check.
C13_DisabledAndNoCheckBitsForceFalse ==
    \A i \in DOMAIN processors :
        /\ TagHas(processors[i].tags, DISABLED) => ~processors[i].caps.is_enabled
        /\ TagHas(processors[i].tags, NO_CHECK) => ~processors[i].caps.is_checkable

\* A Processor of a class that overrides check, tagged DISABLED | NO_CHECK | NO_UI: it
\* is neither enabled nor checkable.
C13_Witness ==
    /\ Len(processors) = 1
    /\ processors[1].process = "Full"
    /\ processors[1].tags = DISABLED + NO_CHECK + NO_UI
    /\ ~processors[1].caps.is_enabled
    /\ ~processors[1].caps.is_checkable

\* C14: whatever the tag value and the Process class of a Processor, it is checkable
\* only if the class overrides check, fixable only if the class overrides fix, and has
\* a tool only if the class overrides tool.
C14_TagsOnlyNarrowCapability ==
    \A i \in DOMAIN processors :
        /\ processors[i].caps.is_checkable =>
              "check" \in OverriddenMethods(processors[i].process)
        /\ processors[i].caps.is_fixable =>
              "fix" \in OverriddenMethods(processors[i].process)
        /\ processors[i].caps.has_tool =>
              "tool" \in OverriddenMethods(processors[i].process)

\* A Processor of a class that overrides check alone, tagged NON_BLOCKING | NO_BATCH: it
\* is checkable, not fixable and has no tool.
C14_Witness ==
    /\ Len(processors) = 1
    /\ processors[1].process = "CheckOnly"
    /\ processors[1].tags = NON_BLOCKING + NO_BATCH
    /\ processors[1].caps.is_checkable
    /\ ~processors[1].caps.is_fixable
    /\ ~processors[1].caps.has_tool

(***************************************************************************)
(* CLAIMS ON THE PROCESS OF A PROCESSOR                                    *)
(***************************************************************************)
\* The overrides name an attribute that is no Thread of the Process class.
NamesMissingThread(overrides) ==
    \E k \in DOMAIN overrides : overrides[k].thread \notin DOMAIN threads

RuntimeErrors ==
    {"RuntimeError: no thread", "RuntimeError: fail status", "RuntimeError: success status"}

\* C11 as stated: when a description of the Blueprint holds a status override that
\* names a Thread attribute the Process does not have, blueprint.processors raises and
\* no Processor is built.
C11_Original ==
    (/\ bpLast.op = "processors"
     /\ \E i \in DOMAIN header :
           /\ header[i] \in DOMAIN descriptions
           /\ NamesMissingThread(StatusOverridesOf(descriptions[header[i]]))) =>
        /\ bpLast.out # "ok"
        /\ processors = <<>>

\* C11, amended: a Processor whose status overrides name a Thread attribute the Process
\* does not have is built by blueprint.processors, which returns; the RuntimeError is
\* raised when the Processor instantiates its Process, at every read of
\* processor.process and every call of check, fix or tool that the class overrides,
\* and no instance is ever cached.
C11_MissingThreadRaisesAtInstantiation ==
    \A i \in DOMAIN processors :
        NamesMissingThread(processors[i].status_overrides) =>
            /\ bpLast.op = "processors"
            /\ bpLast.out = "ok"
            /\ process = 0
            /\ (\/ prLast.op = "process"
                \/ prLast.op = "call" /\ HasMethod(processors[i].process, prLast.m)) =>
                  prLast.out \in RuntimeErrors

\* The Processor was built with an override of a missing Thread, and its second call of
\* check raised the RuntimeError as the first did.
C11_Witness ==
    /\ Len(processors) = 1
    /\ processors[1].status_overrides =
          <<[thread |-> "Missing", fail |-> WARNING, success |-> NoStatus]>>
    /\ bpLast.op = "processors"
    /\ bpLast.out = "ok"
    /\ prLast.op = "call"
    /\ prLast.m = "check"
    /\ prLast.out = "RuntimeError: no thread"
    /\ created = 2
    /\ process = 0

\* C15 as stated: after the construction of the Processors and before any read of
\* processor.process and any call of check, fix or tool, no Process module is loaded and
\* no Process instance exists.
C15_Original ==
    (bpLast.op = "processors" /\ prLast.op = "init") =>
        /\ imported = {}
        /\ created = 0

\* C15, amended: the construction of a Processor imports the module of its Process
\* class, which the tag resolution needs to know the methods the class overrides, and
\* instantiates no Process: after the construction and before any read of
\* processor.process and any call of check, fix or tool, the class of every Processor
\* is loaded and no Process instance exists.
C15_ConstructionImportsAndDoesNotInstantiate ==
    (bpLast.op = "processors" /\ prLast.op = "init") =>
        /\ created = 0
        /\ process = 0
        /\ \A i \in DOMAIN processors : processors[i].process \in imported

\* The Processor was built and nothing was read or called yet.
C15_Witness ==
    /\ bpLast.op = "processors"
    /\ bpLast.out = "ok"
    /\ prLast.op = "init"
    /\ Len(processors) = 1
    /\ processors[1].process = "NoCheck"
    /\ imported = {"NoCheck"}
    /\ created = 0

\* C16: a call of check, fix or tool on a Processor whose Process class does not
\* override the method returns None at once: it raises nothing, creates no Process
\* instance and enters no method.
C16_MissingCapabilityReturnsNone ==
    [][\A i \in DOMAIN processors :
          (prLast'.op = "call" /\ ~HasMethod(processors[i].process, prLast'.m)) =>
              /\ prLast'.out = "None"
              /\ created' = created
              /\ process' = process
              /\ running' = "none"]_vars

\* check() was called on a Processor whose class overrides fix and tool alone, before
\* any Process instance was created: it returned None and there is still no instance.
C16_Witness ==
    /\ Len(processors) = 1
    /\ processors[1].process = "NoCheck"
    /\ prLast.op = "call"
    /\ prLast.m = "check"
    /\ prLast.out = "None"
    /\ created = 0
    /\ process = 0

\* C17: the Process instance is created at most once for the Processor: every read of
\* processor.process and every call of check, fix or tool uses the one instance.
C17_Original == created <= 1

\* C18: when the method of the Process raises part-way through, the containers after
\* the raise are the containers before it: one per Thread of the class, with the same
\* statuses and the same Feedback, nothing lost and nothing added.
C18_RaiseLeavesTheContainers ==
    [][prLast'.op = "raise" =>
          /\ feedback_container' = feedback_container
          /\ DOMAIN feedback_container' = DOMAIN threads]_vars

\* check() raised after it set T1 as failed and added a Feedback to it: the container of
\* T1 holds both, the container of T2 is as it was made.
C18_Witness ==
    /\ prLast.op = "raise"
    /\ prLast.m = "check"
    /\ DOMAIN feedback_container = {"T1", "T2"}
    /\ feedback_container["T1"].status = ERROR
    /\ feedback_container["T1"].children = <<Feedback("f1", TRUE)>>
    /\ feedback_container["T2"].status = DEFAULT
    /\ feedback_container["T2"].children = <<>>

\* What a Process holds when its containers have just been made: one container per
\* Thread of the class, of built-in Default status, selectable, without children.
FreshContainers ==
    [t \in DOMAIN threads |->
        [feedback |-> t, selectable |-> TRUE, children |-> <<>>,
         status |-> DEFAULT]]

\* C19: right after a Process instance is created and right after every
\* clear_feedback(), the Process holds one container per Thread of the class, each of
\* built-in Default status, selectable and without children; no Feedback attached
\* before the clear is left in them.
C19_FreshContainersAfterConstructionAndClear ==
    [][(created' # created \/ prLast'.op = "clear_feedback") =>
          feedback_container' = FreshContainers]_vars

\* clear_feedback() was called when T1 held a Feedback and T2 was skipped: both
\* containers are as new.
C19_Witness ==
    /\ prLast.op = "clear_feedback"
    /\ Len(prLast.pre["T1"].children) = 1
    /\ prLast.pre["T2"].status = SKIPPED
    /\ feedback_container = FreshContainers

\* C20: set_success, set_fail, set_skipped and add_feedback on a Thread leave the
\* container of every other Thread as it was; and when check() returns, every Thread on
\* which none of set_success, set_fail and set_skipped was called since the containers
\* were made or cleared has the built-in Default status.
C20_OnlyTheThreadSetChanges ==
    /\ [][\A t \in DOMAIN threads :
              (/\ prLast'.op \in {"set_success", "set_fail", "set_skipped", "add_feedback"}
               /\ prLast'.thread = t) =>
                  \A u \in DOMAIN threads \ {t} :
                      feedback_container'[u] = feedback_container[u]]_vars
    /\ []((prLast.op = "return" /\ prLast.m = "check") =>
            \A t \in DOMAIN threads \ touched :
                feedback_container[t].status = DEFAULT)

\* check() returned after it set T1 alone, to the fail status the overrides gave it, and
\* added a Feedback to it: T2 has the Default status.
C20_Witness ==
    /\ prLast.op = "return"
    /\ prLast.m = "check"
    /\ touched = {"T1"}
    /\ feedback_container["T1"].status = WARNING
    /\ Len(feedback_container["T1"].children) = 1
    /\ feedback_container["T2"] = FeedbackContainer("T2", TRUE, DEFAULT)

(***************************************************************************)
(* CLAIMS ON THE FEEDBACK NODES                                            *)
(***************************************************************************)
\* C21: two nodes of the same class with equal feedback are equal and have equal
\* hashes, whatever their selectable flags, their children and, for two
\* FeedbackContainers, their statuses; and set_status changes neither what a
\* container is equal to nor its hash.
C21_EqualityAndHashByFeedbackAlone ==
    /\ fbLast.op = "compare" =>
          ((/\ IsContainer(fbNodes[1]) = IsContainer(fbNodes[2])
            /\ fbNodes[1].feedback = fbNodes[2].feedback) =>
              (fbLast.eq /\ fbLast.hash_eq))
    /\ fbLast.op = "set_status" => (fbLast.eq = fbLast.pre_eq /\ fbLast.hash_kept)

\* The calls select() or deselect() made on the children of the node itself.
ChildCalls ==
    LET IsChild(c) == Len(c.path) = 1
    IN SelectSeq(fbLast.calls, IsChild)

\* The children of the first node are called one after another, in their order, the
\* first with the replace of the caller and the others with False.
EveryChildCalledInOrder ==
    /\ Len(ChildCalls) = Len(fbNodes[1].children)
    /\ \A k \in DOMAIN ChildCalls :
          /\ ChildCalls[k].path = <<k>>
          /\ ChildCalls[k].replace = (k = 1 /\ fbLast.replace)

\* The first node has three children and all three are selectable.
ThreeSelectableChildren ==
    /\ Len(fbNodes[1].children) = 3
    /\ \A k \in 1..3 : fbNodes[1].children[k].selectable

\* C22 as stated: select(replace=True) on a FeedbackContainer that is not selectable
\* and has three selectable children makes exactly three calls of select, one per child
\* in their order, with replace True, False, False.
C22_Original ==
    (/\ fbLast.op = "select"
     /\ fbLast.replace
     /\ IsContainer(fbNodes[1])
     /\ ~fbNodes[1].selectable
     /\ ThreeSelectableChildren) =>
        fbLast.calls = <<[path |-> <<1>>, replace |-> TRUE],
                         [path |-> <<2>>, replace |-> FALSE],
                         [path |-> <<3>>, replace |-> FALSE]>>

\* C22, amended: select(replace=True) on a FeedbackContainer that is selectable and has
\* three selectable children makes exactly three calls of select, one per child in
\* their order, with replace True, False, False; on a FeedbackContainer that is not
\* selectable it calls no child and returns replace.
C22_SelectableContainerCascades ==
    (/\ fbLast.op = "select"
     /\ fbLast.replace
     /\ IsContainer(fbNodes[1])
     /\ ThreeSelectableChildren) =>
        IF fbNodes[1].selectable
        THEN fbLast.calls = <<[path |-> <<1>>, replace |-> TRUE],
                              [path |-> <<2>>, replace |-> FALSE],
                              [path |-> <<3>>, replace |-> FALSE]>>
        ELSE fbLast.calls = <<>> /\ fbLast.returned

\* select(replace=True) was called on a selectable FeedbackContainer of three
\* selectable children, and made its three calls.
C22_Witness ==
    /\ fbLast.op = "select"
    /\ fbLast.replace
    /\ IsContainer(fbNodes[1])
    /\ fbNodes[1].selectable
    /\ ThreeSelectableChildren
    /\ Len(fbLast.calls) = 3
    /\ ~fbLast.returned

\* C23 as stated: on every node, Feedback or FeedbackContainer, select and deselect call
\* each child in order when the node is not selectable, the first with the replace of
\* the caller and the others with False, and call no child when it is selectable.
C23_Original ==
    fbLast.op \in {"select", "deselect"} =>
        IF ~fbNodes[1].selectable THEN EveryChildCalledInOrder ELSE fbLast.calls = <<>>

\* C23, amended: select and deselect on a Feedback that is not selectable, and on a
\* FeedbackContainer that is selectable, call each child in order, the first with
\* the replace of the caller and the others with False; on a selectable Feedback, and
\* on a FeedbackContainer that is not selectable, they call no child.
C23_CascadeByClassAndSelectable ==
    fbLast.op \in {"select", "deselect"} =>
        IF IsContainer(fbNodes[1]) = fbNodes[1].selectable
        THEN EveryChildCalledInOrder
        ELSE fbLast.calls = <<>>

\* select(replace=True) was called on a Feedback that is not selectable and has two
\* children, the second a group: the calls reached the two children and, through the
\* group, its own two children.
C23_Witness ==
    /\ fbLast.op = "select"
    /\ fbLast.replace
    /\ ~IsContainer(fbNodes[1])
    /\ ~fbNodes[1].selectable
    /\ fbNodes[1].children = <<Leaf, Group>>
    /\ fbLast.calls = <<[path |-> <<1>>, replace |-> TRUE],
                        [path |-> <<2>>, replace |-> FALSE],
                        [path |-> <<2, 1>>, replace |-> FALSE],
                        [path |-> <<2, 2>>, replace |-> FALSE]>>


(***************************************************************************)
(* CLAIMS ON THE PARAMETERS                                                *)
(***************************************************************************)
\* C24: Parameter assignment is validate-then-store. After set(instance, v) whose
\* type_cast returned, the cast value is type_cast(v) and the stored value is the cast
\* value if validate accepts it, and otherwise the value stored before, no error being
\* raised; when type_cast raises nothing is stored. After delete the stored value is the
\* declared default.
C24_ValidateThenStore ==
    /\ parLast.op = "set" =>
          /\ parLast.exc = TypeCast(parameter, parLast.arg).exc
          /\ parLast.cast = TypeCast(parameter, parLast.arg).v
          /\ parLast.exc = "none" =>
                parameter.value = IF Validate(parameter, parLast.cast)
                                  THEN parLast.cast ELSE parLast.pre
          /\ parLast.exc # "none" => parameter.value = parLast.pre
    /\ parLast.op = "delete" => parameter.value = parameter.default

\* A cast value that validate rejected was dropped: the value stored before is still
\* there and it is not the cast value.
C24_Witness ==
    /\ parLast.op = "set"
    /\ parLast.exc = "none"
    /\ ~Validate(parameter, parLast.cast)
    /\ parLast.cast # parLast.pre
    /\ parameter.value = parLast.pre
    /\ parameter.value # parameter.default


(***************************************************************************)
(* CLAIMS ON THE EVENTS                                                    *)
(***************************************************************************)
\* C25: add_callback(c) with a c that is not callable returns False without raising and
\* leaves the registered callbacks unchanged; with a callable c it appends c and returns
\* True.
C25_AddCallbackReturnsFalseOrAppends ==
    [][intLast'.op = "add_callback" =>
          IF intLast'.callable
          THEN /\ Len(callbacks') = Len(callbacks) + 1
               /\ callbacks' = Append(callbacks, callbacks'[Len(callbacks')])
               /\ intLast'.out = "True"
          ELSE /\ callbacks' = callbacks
               /\ intLast'.out = "False"]_vars

\* The callbacks that raise, by their place in the registration order.
Raising == {k \in 1 .. Len(callbacks) : callbacks[k] = "raise"}

\* The first callback that raises.
FirstRaising == CHOOSE k \in Raising : \A j \in Raising : k <= j

\* C26: calling the event invokes the registered callbacks one after another in
\* registration order; when a callback raises, the exception propagates to the caller
\* and no callback registered after it is invoked. The callbacks invoked are those up to
\* the first one that raises, all of them when none raises, and the interruption is
\* registered during the call exactly when one of the callbacks invoked registers it.
C26_CallbacksInOrderUntilOneRaises ==
    (intLast.op = "listen" /\ intLast.fired) =>
        IF Raising = {}
        THEN /\ intLast.ran = Len(callbacks)
             /\ intLast.out # "callback_raised"
             /\ intLast.setDuring = (\E k \in 1 .. Len(callbacks) : callbacks[k] = "interrupt")
        ELSE /\ intLast.ran = FirstRaising
             /\ intLast.out = "callback_raised"
             /\ intLast.setDuring = (\E k \in 1 .. FirstRaising : callbacks[k] = "interrupt")
             /\ do_interrupt = intLast.setDuring

\* The event was called with a raising callback registered between two callbacks that
\* register the interruption: the first ran, the last did not.
C26_Witness ==
    /\ intLast.op = "listen"
    /\ intLast.fired
    /\ Len(callbacks) = 3
    /\ callbacks[1] = "interrupt"
    /\ callbacks[2] = "raise"
    /\ callbacks[3] = "interrupt"
    /\ intLast.ran = 2
    /\ intLast.out = "callback_raised"

(***************************************************************************)
(* CLAIMS ON THE STATUSES                                                  *)
(***************************************************************************)
\* The classes of status a Process result is made of.
ResultFamilies == {"FailStatus", "SuccessStatus"}

\* C27: for every pair a, b of constructed FailStatus and SuccessStatus instances,
\* exactly one of a < b, a == b, a > b holds and it is the one that holds between a.level
\* and b.level, whatever the names, the colors and the families of a and b.
C27_TotalOrderByLevel ==
    (/\ stLast.op = "compare"
     /\ stLast.a.family \in ResultFamilies
     /\ stLast.b.family \in ResultFamilies) =>
        /\ Cardinality({r \in {"lt", "eq", "gt"} : stLast[r]}) = 1
        /\ stLast.lt = FloatLt(stLast.a.level, stLast.b.level)
        /\ stLast.eq = FloatEq(stLast.a.level, stLast.b.level)
        /\ stLast.gt = FloatGt(stLast.a.level, stLast.b.level)

\* C28: two instances of Status with the same level are equal whatever their names, their
\* colors and their families.
C28_EqualLevelIsEqual ==
    (/\ stLast.op = "compare"
     /\ ~stLast.a.level.nan
     /\ ~stLast.b.level.nan
     /\ stLast.a.level.v = stLast.b.level.v) => stLast.eq

\* A FailStatus and a SuccessStatus of the same level, of distinct names and colors, were
\* compared and are equal.
C28_Witness ==
    /\ stLast.op = "compare"
    /\ stLast.a.family = "FailStatus"
    /\ stLast.b.family = "SuccessStatus"
    /\ stLast.a.name # stLast.b.name
    /\ stLast.a.color # stLast.b.color
    /\ stLast.a.level = stLast.b.level
    /\ stLast.eq

\* C29: after any sequence of constructions, get_all_fail_status() holds instances of
\* FailStatus only and get_all_success_status() instances of SuccessStatus only.
C29_FamilyAccessorsHoldTheirFamily ==
    /\ \A s \in GetAllFailStatus(all_status) : s.family = "FailStatus"
    /\ \A s \in GetAllSuccessStatus(all_status) : s.family = "SuccessStatus"

\* A SuccessStatus and a built-in status were constructed after the import and are
\* registered.
C29_Witness ==
    /\ \E s \in GetAllSuccessStatus(all_status) : s.id > 8
    /\ \E s \in all_status["_BuiltInStatus"] : s.id > 8

\* C30: every constructed instance is registered. After the construction of a FailStatus
\* or SuccessStatus s, one whose level, name or color coincides with a registered status
\* included, s is among get_all_statuses() and among the instances its family accessor
\* returns, and every status registered before still is.
C30_EveryConstructedInstanceIsRegistered ==
    [][(stLast'.op = "construct" /\ stLast'.a.family \in ResultFamilies) =>
          /\ stLast'.a \in GetAllStatuses(all_status')
          /\ stLast'.a.family = "FailStatus" => stLast'.a \in GetAllFailStatus(all_status')
          /\ stLast'.a.family = "SuccessStatus" =>
                stLast'.a \in GetAllSuccessStatus(all_status')
          /\ GetAllStatuses(all_status) \subseteq GetAllStatuses(all_status')]_vars

\* x <= y on two floats.
FloatLe(x, y) == ~x.nan /\ ~y.nan /\ x.v <= y.v

\* C31: lowest_fail_status() has a level less than or equal to the level of every
\* registered FailStatus and highest_fail_status() a level greater than or equal to all
\* of them, likewise for the SuccessStatus; with the predefined statuses registered the
\* lowest is strictly lower than the highest in each family.
C31_LowestAndHighestBoundTheFamily ==
    stLast.op = "extremes" =>
        /\ stLast.lowest \in all_status[stLast.family]
        /\ stLast.highest \in all_status[stLast.family]
        /\ \A s \in all_status[stLast.family] :
              /\ FloatLe(stLast.lowest.level, s.level)
              /\ FloatLe(s.level, stLast.highest.level)
        /\ StatusLt(stLast.lowest, stLast.highest)

\* C32: the base class Status cannot be instantiated: Status(name, color, level) fails
\* with an error and registers nothing, while the construction of a FailStatus or of a
\* SuccessStatus never fails.
C32_BaseStatusCannotBeInstantiated ==
    [][stLast'.op = "construct" =>
          IF stLast'.a.family = "Status"
          THEN stLast'.raised /\ all_status' = all_status
          ELSE stLast'.a.family \in ResultFamilies => ~stLast'.raised]_vars

(***************************************************************************)
(* CLAIMS ON THE EXECUTION OF THE LINKS                                    *)
(***************************************************************************)
\* The method of the wrapped Process raised in the top level call.
TopLevelRaised ==
    /\ bpLast.op \in Methods
    /\ \E k \in DOMAIN bpLast.log :
          /\ bpLast.log[k].ev = "run"
          /\ bpLast.log[k].depth = 1
          /\ bpLast.log[k].raised

\* C33: whatever the links run in the finally clause do (each linked callable returns or
\* raises), an exception raised by the check of the Process is the exception that reaches
\* the caller of Processor.check(links=True); the same for fix and tool.
C33_ProcessExceptionReachesTheCaller ==
    (TopLevelRaised /\ bpLast.links) =>
        bpLast.exc = ProcessException(bpLast.proc, bpLast.op, 1)

\* The entries and exits of the wrappers the top level call enters through its own
\* links, in order.
DirectSteps(log) ==
    LET Direct(e) == e.ev \in {"call", "exit"} /\ e.depth = 2
    IN SelectSeq(log, Direct)

\* C34: inside one Processor.check/fix/tool call with links=True, the method of the
\* wrapped Process has finished (returned or raised) before the first link is invoked,
\* and the links of the driver kind are then invoked one at a time in the order in which
\* the description declares them: the wrappers entered are, in order, those of the
\* declared links of that kind whose target is applicable in batch, each left before the
\* next is entered, up to the end of the list or to the first that raises.
C34_MethodThenLinksInDeclaredOrder ==
    (/\ bpLast.op \in Methods
     /\ bpLast.links
     /\ HasMethod(processors[bpLast.proc].process, bpLast.op)) =>
        LET log == bpLast.log
            direct == DirectCalls(log)
            steps == DirectSteps(log)
            declared == processors[bpLast.proc].links
            expected == ExpectedBucket(declared, LinkOf(bpLast.op), Len(declared))
        IN /\ log[1].ev = "call" /\ log[1].depth = 1
           /\ log[2].ev = "run" /\ log[2].depth = 1
           /\ \A k \in DOMAIN log : log[k].depth > 1 => k > 2
           /\ Len(direct) <= Len(expected)
           /\ \A k \in DOMAIN direct :
                 /\ direct[k].proc = expected[k].target
                 /\ direct[k].method = expected[k].method
           /\ Len(steps) = 2 * Len(direct)
           /\ \A k \in DOMAIN steps : steps[k].ev = (IF k % 2 = 1 THEN "call" ELSE "exit")
           /\ \A k \in DOMAIN steps :
                 (steps[k].ev = "exit" /\ k < Len(steps)) => ~steps[k].raised
           /\ Len(direct) < Len(expected) =>
                 (Len(steps) > 0 /\ steps[Len(steps)].raised)

\* A check that raised was followed by its two links, to two different wrappers, in the
\* order of their declaration.
C34_Witness ==
    /\ TopLevelRaised
    /\ bpLast.op = "check"
    /\ bpLast.links
    /\ Len(processors[bpLast.proc].links) = 2
    /\ Len(DirectCalls(bpLast.log)) = 2
    /\ DirectCalls(bpLast.log)[1].method # DirectCalls(bpLast.log)[2].method
    /\ DirectCalls(bpLast.log)[1].method =
          MethodNamed(processors[bpLast.proc].links[1].driven)

\* The wrappers that the chains of resolved links lead to from the wrapper n, n included.
ReachableFrom(n) ==
    {n} \cup LinkedWithin(LinkedFrom(n), Cardinality((DOMAIN processors) \X Methods))

\* A cycle of resolved links can be reached from the wrapper n.
CycleReachable(n) == \E x \in ReachableFrom(n) : OnLinkCycle(x)

\* The wrappers the log shows entered.
Entered(log) == {<<log[k].proc, log[k].method>> : k \in {j \in DOMAIN log : log[j].ev = "call"}}

\* The call has ended: it returned or an exception reached the caller.
Ended == bpLast.returned \in {"None", "value"} \/ bpLast.exc.type # "None"

\* C35 as stated: the methods of the Processes terminating, Processor.check(links=True)
\* returns or raises if and only if no cycle of resolved links is reachable from it.
C35_Original ==
    (bpLast.op \in Methods /\ bpLast.links) =>
        (Ended <=> ~CycleReachable(<<bpLast.proc, bpLast.op>>))

\* C35, amended: a linked method is invoked through the wrapper of its target with links
\* enabled, so that the links of the target run in turn: a call that returns has entered
\* every wrapper its chains of resolved links lead to. The call always ends: when no
\* cycle of resolved links is reachable from it, it returns or raises the exception of a
\* Process; only when one is reachable can the recursion go on until the interpreter
\* cuts it, and the RecursionError then reaches the caller.
C35_LinksChainAndEndInRecursionErrorOnlyOnCycles ==
    (bpLast.op \in Methods /\ bpLast.links) =>
        /\ Ended
        /\ Entered(bpLast.log) \subseteq ReachableFrom(<<bpLast.proc, bpLast.op>>)
        /\ bpLast.exc.type = "None" =>
              Entered(bpLast.log) = ReachableFrom(<<bpLast.proc, bpLast.op>>)
        /\ bpLast.exc.type = "RecursionError" =>
              CycleReachable(<<bpLast.proc, bpLast.op>>)
        /\ (bpLast.exc.type = "None" /\ bpLast.returned = "value") =>
              ~CycleReachable(<<bpLast.proc, bpLast.op>>)

\* A check whose links lead back to it through the other Processor ended in
\* RecursionError.
C35_Witness ==
    /\ bpLast.op = "check"
    /\ bpLast.links
    /\ OnLinkCycle(<<bpLast.proc, "check">>)
    /\ <<bpLast.proc, "check">> \notin LinkedFrom(<<bpLast.proc, "check">>)
    /\ bpLast.exc.type = "RecursionError"
    /\ Cardinality(Entered(bpLast.log)) = 2

(***************************************************************************)
(* CLAIMS ON THE REGISTER AFTER CLEAR AND RELOAD                           *)
(***************************************************************************)
\* C36: in every state a Register reaches by loads, clears, reloads and assignments of
\* current_blueprint, current_blueprint is None or is equal to a Blueprint of
\* register.blueprints.
C36_CurrentIsNoneOrRegistered ==
    current_blueprint = NoBlueprint \/ Contains(blueprints, current_blueprint)

\* C37: reload() loses no Blueprint on failure: when the import of a Processor module or
\* of a Blueprint module raises during reload(), register.blueprints still holds every
\* Blueprint it held before the call, at the same index.
C37_FailedReloadKeepsEveryBlueprint ==
    (regLast.op = "reload" /\ regLast.out = "raised") =>
        \A i \in DOMAIN regLast.pre :
            /\ i \in DOMAIN blueprints
            /\ BlueprintEq(blueprints[i], regLast.pre[i])

(***************************************************************************)
(* CLAIMS ON THE SCOPE OF THE STATUS OVERRIDES                             *)
(***************************************************************************)
\* C38: status overrides are per Processor. Once a Processor without status overrides
\* has instantiated its Process, set_fail and set_success on a Thread report the default
\* fail and success statuses of the Thread, whatever the overrides that the other
\* Processors of the same Process class resolved before, as long as the application has
\* not itself called Thread.override_fail_status or Thread.override_success_status.
C38_OverridesArePerProcessor ==
    (ovLast.op = "override" /\ ovLast.overrides = <<>> /\ ~ovLast.direct) =>
        \A t \in DOMAIN threads :
            /\ ThreadStatus(threads[t], FALSE) = threads[t].default_fail_status
            /\ ThreadStatus(threads[t], TRUE) = threads[t].default_success_status

(***************************************************************************)
(* CLAIMS ON THE RANGE OF THE NUMBER PARAMETERS                            *)
(***************************************************************************)
\* C39: for an IntParameter declared with a minimum and a maximum, after any sequence of
\* set and delete on an instance the stored value v satisfies minimum <= v <= maximum
\* (an input out of the range is stored as the nearest bound with keepInRange, and
\* dropped without it).
C39_StoredValueWithinTheRange ==
    (/\ parameter.kind = "IntParameter"
     /\ parameter.minimum # None
     /\ parameter.maximum # None) =>
        /\ parameter.minimum.i <= parameter.value.i
        /\ parameter.value.i <= parameter.maximum.i

====
